---- MODULE Spec2Model ----
(***************************************************************************)
(* Export pipeline of notion-anki-sync: one export_page call of a Notion   *)
(* client against a server whose answers are chosen nondeterministically.  *)
(*                                                                         *)
(* Two clients are modelled, one call per behaviour, chosen in Init:       *)
(*   "addon"  src/notion_sync_addon/notion_client.py  (requests, blocking) *)
(*   "async"  src/notion_anki_sync/clients.py         (aiohttp, asyncio)   *)
(*                                                                         *)
(* `log` is the wire history of the call: every request the client sent    *)
(* with the answer it got, and every backoff sleep, in program order.      *)
(*                                                                         *)
(* Further specifications over their own variables (the variables of the   *)
(* other parts stay at their idle values):                                 *)
(*   SpecSync     src/notion_anki_sync/sync.py: one round of sync(), the   *)
(*                page tasks under asyncio.gather                          *)
(*   SpecParser   src/notion_sync_addon/parser.py: extract_note on one     *)
(*                fragment, event by event                                 *)
(*   SpecMarkup   the same parser on fragments with equations, wrappers    *)
(*                that are not allow-listed, images and nested toggles     *)
(*   SpecDocument extract_notes_data on one HTML file                      *)
(*   SpecPlugin   src/notion_sync_addon/__init__.py: NotionSyncPlugin, its *)
(*                workers and the target deck                              *)
(*   SpecBlockId  normalize_block_id applied again and again to a block id *)
(***************************************************************************)
EXTENDS Integers, Sequences, FiniteSets, TLC

VARIABLES
    client,             \* which NotionClient runs the call
    pc,                 \* position of the call: "enqueue", "poll", "download", "returned", "raised"
    attempts_count,     \* the local attempts_count of the running loop
    max_attempts_count, \* async get_task_result: config.NOTION_GET_TASK_MAX_ATTEMPTS as loaded
    task_id,            \* export_page's task_id (None until enqueue returned)
    export_url,         \* export_page's export_url (None until the poll returned)
    err,                \* the exception export_page raised (None while none)
    file,               \* what the destination path holds
    log                 \* requests sent (with their answers) and sleeps, in order

VARIABLES
    tasks,              \* sync(): page -> where its sync_page task stands
    failure,            \* sync(): page -> the stage its task failed in (None while none)
    sync_state          \* sync(): position of the sync() coroutine

VARIABLES
    fragment,           \* extract_note: the HTML fragment handed in (its shape and items)
    feed,               \* extract_note: the events parser.feed has still to deliver
    parser,             \* extract_note: the fields of the NoteDataExtractor
    note                \* extract_note: what the call handed back ("pending" before)

VARIABLES
    document,           \* extract_notes_data: the toggle fragments of the HTML file, in order
    node,               \* extract_notes_data: index of the fragment the loop is at
    notes,              \* extract_notes_data: the local list `notes`
    extraction          \* extract_notes_data: "running", "returned" or the exception raised

VARIABLES
    plugin,             \* NotionSyncPlugin: its fields
    workers,            \* the NotesExtractorWorkers started so far, with their signals not yet handled
    deck,               \* the notes of the target deck in the Anki collection
    ui,                 \* main window: initialised or not, menu title, last dialog shown
    syncs,              \* number of _sync runs that started workers
    plog                \* the log records produced so far

VARIABLES
    block_id,           \* normalize_block_id: the identifier given by the caller
    normalized          \* normalize_block_id: the results of the successive calls

exportVars == <<client, pc, attempts_count, max_attempts_count, task_id, export_url, err, file, log>>
syncVars == <<tasks, failure, sync_state>>

parserVars == <<fragment, feed, parser, note>>
documentVars == <<document, node, notes, extraction>>
pluginVars == <<plugin, workers, deck, ui, syncs, plog>>
blockIdVars == <<block_id, normalized>>
notExportVars == <<syncVars, parserVars, documentVars, pluginVars, blockIdVars>>
notSyncVars == <<exportVars, parserVars, documentVars, pluginVars, blockIdVars>>
notParserVars == <<exportVars, syncVars, documentVars, pluginVars, blockIdVars>>
notDocumentVars == <<exportVars, syncVars, parserVars, pluginVars, blockIdVars>>
notPluginVars == <<exportVars, syncVars, parserVars, documentVars, blockIdVars>>
notBlockIdVars == <<exportVars, syncVars, parserVars, documentVars, pluginVars>>

vars == <<exportVars, notExportVars>>

----------------------------------------------------------------------------
(* Bounds and constants *)

\* Retry budget of the addon client. The code sets 600
\* (notion_client.py:37); both loops are uniform in the value, so the model
\* runs them with a small budget.
NOTION_MAX_RETRIES == 3

\* Poll attempts of the async client. The code's default is 600
\* (config.py:41); the model runs the loop with a small value.
NOTION_GET_TASK_MAX_ATTEMPTS == 3

\* Seconds slept between retries by the addon client.
NOTION_RETRY_TIME == 1

\* Cap on the enqueue answers that are not decodable as JSON: the addon's
\* enqueue loop spends no budget on them, so the model has to stop them.
MaxUndecodable == 2

None == "None"

\* The page the call exports.
page_id == "p1"

\* Task ids an enqueue answer can carry; "" is the falsy one.
TaskIds == {"t1", "t2", ""}

\* Download URLs a 'complete' poll answer can carry; "" stands for a falsy
\* exportURL (null or empty).
ExportUrls == {"u1", "u2", ""}

\* Python truthiness of a task id / URL.
Truthy(v) == v # "" /\ v # None

----------------------------------------------------------------------------
(* The wire history *)

Req(op, arg, resp, val) ==
    [op |-> op, arg |-> arg, resp |-> resp, val |-> val, secs |-> 0]

Sleep(s) ==
    [op |-> "sleep", arg |-> "", resp |-> "", val |-> "", secs |-> s]

IsEnqueue(e) == e.op = "enqueue"
IsStatus(e) == e.op = "status"
IsDownload(e) == e.op = "download"
IsSleep(e) == e.op = "sleep"
IsUndecodableEnqueue(e) == e.op = "enqueue" /\ e.resp = "undecodable"

EnqueueReqs == SelectSeq(log, IsEnqueue)
StatusReqs == SelectSeq(log, IsStatus)

----------------------------------------------------------------------------
(* Initial state: export_page has been called, nothing sent yet *)

ExportInit ==
    /\ client \in {"addon", "async"}
    /\ pc = "enqueue"
    /\ attempts_count = 0
    /\ max_attempts_count \in
          IF client = "async" THEN {0, NOTION_GET_TASK_MAX_ATTEMPTS}
                              ELSE {NOTION_MAX_RETRIES}
    /\ task_id = None
    /\ export_url = None
    /\ err = None
    /\ file = "absent"
    /\ log = <<>>

\* No export_page call is under way.
ExportIdle ==
    /\ client = "addon"
    /\ pc = "idle"
    /\ attempts_count = 0
    /\ max_attempts_count = NOTION_MAX_RETRIES
    /\ task_id = None
    /\ export_url = None
    /\ err = None
    /\ file = "absent"
    /\ log = <<>>

\* No extract_note call is under way.
ParserIdle ==
    /\ fragment = <<>>
    /\ feed = <<>>
    /\ parser = <<>>
    /\ note = <<>>

\* No extract_notes_data call is under way.
DocumentIdle ==
    /\ document = <<>>
    /\ node = 0
    /\ notes = <<>>
    /\ extraction = "idle"

\* normalize_block_id is not called.
BlockIdIdle ==
    /\ block_id = <<>>
    /\ normalized = <<>>

\* The add-on is not loaded.
PluginIdle ==
    /\ plugin = <<>>
    /\ workers = <<>>
    /\ deck = <<>>
    /\ ui = <<>>
    /\ syncs = 0
    /\ plog = {}

\* sync() is not running.
SyncIdle ==
    /\ tasks = <<>>
    /\ failure = <<>>
    /\ sync_state = "idle"

Init == ExportInit /\ SyncIdle /\ ParserIdle /\ DocumentIdle /\ PluginIdle /\ BlockIdIdle

\* An exception leaves export_page.
Raise(e) ==
    /\ pc' = "raised"
    /\ err' = e

----------------------------------------------------------------------------
(* Addon client: NotionClient.enqueue_export_task                          *)
(* One action per outcome of the request at the top of the while loop;     *)
(* each runs the loop body and, when the loop ends, the rest of the call   *)
(* up to the next request of export_page.                                  *)

AtEnqueue == client = "addon" /\ pc = "enqueue"

\* session.post raises one of CONNECTION_EXCEPTIONS: re-raised at once.
EnqueueDisconnect ==
    /\ AtEnqueue
    /\ log' = Append(log, Req("enqueue", page_id, "disconnect", ""))
    /\ Raise("NotionClientError: Request error")
    /\ UNCHANGED <<client, attempts_count, max_attempts_count, task_id, export_url, file>>

\* Fault variant of Enqueue401: 401 handled like a server error (retried).
Enqueue401_Retried ==
    /\ AtEnqueue
    /\ log' = log \o <<Req("enqueue", page_id, "401", ""), Sleep(NOTION_RETRY_TIME)>>
    /\ attempts_count' = attempts_count + 1
    /\ IF attempts_count' < NOTION_MAX_RETRIES
         THEN UNCHANGED <<pc, err>>
         ELSE Raise("NotionClientError: Cannot submit export task")
    /\ UNCHANGED <<client, max_attempts_count, task_id, export_url, file>>

\* status_code == 401: raise NotionClientError('Invalid token').
Enqueue401 ==
    /\ AtEnqueue
    /\ log' = Append(log, Req("enqueue", page_id, "401", ""))
    /\ Raise("NotionClientError: Invalid token")
    /\ UNCHANGED <<client, attempts_count, max_attempts_count, task_id, export_url, file>>

\* Fault variant of Enqueue5xx: the loop runs while attempts_count <=
\* NOTION_MAX_RETRIES.
Enqueue5xx_OffByOne ==
    /\ AtEnqueue
    /\ log' = log \o <<Req("enqueue", page_id, "5xx", ""), Sleep(NOTION_RETRY_TIME)>>
    /\ attempts_count' = attempts_count + 1
    /\ IF attempts_count' <= NOTION_MAX_RETRIES
         THEN UNCHANGED <<pc, err>>
         ELSE Raise("NotionClientError: Cannot submit export task")
    /\ UNCHANGED <<client, max_attempts_count, task_id, export_url, file>>

\* status_code >= 500: attempts_count += 1, sleep NOTION_RETRY_TIME, loop.
\* When the loop condition fails, data is still None: 'Cannot submit
\* export task' is raised.
Enqueue5xx ==
    /\ AtEnqueue
    /\ log' = log \o <<Req("enqueue", page_id, "5xx", ""), Sleep(NOTION_RETRY_TIME)>>
    /\ attempts_count' = attempts_count + 1
    /\ IF attempts_count' < NOTION_MAX_RETRIES
         THEN UNCHANGED <<pc, err>>
         ELSE Raise("NotionClientError: Cannot submit export task")
    /\ UNCHANGED <<client, max_attempts_count, task_id, export_url, file>>

\* Any other status whose body is not JSON: resp.json() raises
\* JSONDecodeError, which is logged; the loop goes round again with
\* attempts_count untouched and without a sleep.
EnqueueUndecodable ==
    /\ AtEnqueue
    /\ Len(SelectSeq(log, IsUndecodableEnqueue)) < MaxUndecodable
    /\ log' = Append(log, Req("enqueue", page_id, "undecodable", ""))
    /\ UNCHANGED <<client, pc, attempts_count, max_attempts_count, task_id, export_url, err, file>>

\* Any other status whose body decodes to a falsy value ({} or null):
\* break, then 'if not data' raises.
EnqueueEmpty ==
    /\ AtEnqueue
    /\ log' = Append(log, Req("enqueue", page_id, "empty", ""))
    /\ Raise("NotionClientError: Cannot submit export task")
    /\ UNCHANGED <<client, attempts_count, max_attempts_count, task_id, export_url, file>>

\* Any other status whose body is a JSON object without 'taskId' (the error
\* body of a 4xx answer): break, then data['taskId'] raises KeyError.
EnqueueNoTaskId ==
    /\ AtEnqueue
    /\ log' = Append(log, Req("enqueue", page_id, "no_task_id", ""))
    /\ Raise("KeyError: taskId")
    /\ UNCHANGED <<client, attempts_count, max_attempts_count, task_id, export_url, file>>

\* Fault variant of EnqueueTask: get_task_result goes on with the enqueue
\* loop's counter instead of a fresh one.
EnqueueTask_SharedBudget ==
    /\ AtEnqueue
    /\ \E t \in TaskIds :
         /\ log' = Append(log, Req("enqueue", page_id, "task", t))
         /\ task_id' = t
         /\ IF Truthy(t)
              THEN /\ IF attempts_count < NOTION_MAX_RETRIES
                        THEN pc' = "poll" /\ err' = err
                        ELSE Raise("NotionClientError: Cannot get task result")
                   /\ attempts_count' = attempts_count
              ELSE /\ pc' = "returned"
                   /\ UNCHANGED <<attempts_count, err>>
    /\ UNCHANGED <<client, max_attempts_count, export_url, file>>

\* Any other status whose body carries a taskId: break, return
\* data['taskId']. export_page: 'if task_id:' calls get_task_result, which
\* starts with attempts_count = 0; a falsy task id makes export_page
\* return None with nothing else done.
EnqueueTask ==
    /\ AtEnqueue
    /\ \E t \in TaskIds :
         /\ log' = Append(log, Req("enqueue", page_id, "task", t))
         /\ task_id' = t
         /\ IF Truthy(t)
              THEN /\ pc' = "poll"
                   /\ attempts_count' = 0
              ELSE /\ pc' = "returned"
                   /\ UNCHANGED attempts_count
    /\ UNCHANGED <<client, max_attempts_count, export_url, err, file>>

----------------------------------------------------------------------------
(* Addon client: NotionClient.get_task_result                              *)
(* One action per outcome of the status request at the top of the loop.    *)

AtPoll == client = "addon" /\ pc = "poll"

\* Poll answers that neither complete nor fail the task: a body that is not
\* JSON, a body without 'results', a result without 'status', a status of
\* type 'progress'.
NotReadyKinds == {"undecodable", "no_results", "no_status", "progress"}

\* Fault variant of PollDisconnect: the exception is swallowed and the
\* request retried after the backoff, on the loop's budget.
PollDisconnect_Retried ==
    /\ AtPoll
    /\ log' = log \o <<Req("status", task_id, "disconnect", ""), Sleep(NOTION_RETRY_TIME)>>
    /\ attempts_count' = attempts_count + 1
    /\ IF attempts_count' < NOTION_MAX_RETRIES
         THEN UNCHANGED <<pc, err>>
         ELSE Raise("NotionClientError: Cannot get task result")
    /\ UNCHANGED <<client, max_attempts_count, task_id, export_url, file>>

\* session.post raises one of CONNECTION_EXCEPTIONS: re-raised at once.
PollDisconnect ==
    /\ AtPoll
    /\ log' = Append(log, Req("status", task_id, "disconnect", ""))
    /\ Raise("NotionClientError: Request error")
    /\ UNCHANGED <<client, attempts_count, max_attempts_count, task_id, export_url, file>>

\* Fault variant of PollNotReady: when the attempts run out the call
\* returns None instead of raising.
PollNotReady_ReturnsNone ==
    /\ AtPoll
    /\ \E k \in NotReadyKinds :
         log' = log \o <<Req("status", task_id, k, ""), Sleep(NOTION_RETRY_TIME)>>
    /\ attempts_count' = attempts_count + 1
    /\ IF attempts_count' < NOTION_MAX_RETRIES
         THEN UNCHANGED pc
         ELSE pc' = "returned"
    /\ UNCHANGED <<client, max_attempts_count, task_id, export_url, err, file>>

\* Fault variant of PollNotReady: an undecodable answer sends the call back
\* to the enqueue request.
PollNotReady_Reenqueue ==
    /\ AtPoll
    /\ \E k \in NotReadyKinds :
         /\ log' = log \o <<Req("status", task_id, k, ""), Sleep(NOTION_RETRY_TIME)>>
         /\ attempts_count' = attempts_count + 1
         /\ IF attempts_count' < NOTION_MAX_RETRIES
              THEN /\ pc' = IF k = "undecodable" THEN "enqueue" ELSE pc
                   /\ UNCHANGED err
              ELSE Raise("NotionClientError: Cannot get task result")
    /\ UNCHANGED <<client, max_attempts_count, task_id, export_url, file>>

\* The answer does not end the loop: attempts_count += 1, sleep
\* NOTION_RETRY_TIME, loop. When the loop condition fails, 'Cannot get task
\* result' is raised.
PollNotReady ==
    /\ AtPoll
    /\ \E k \in NotReadyKinds :
         log' = log \o <<Req("status", task_id, k, ""), Sleep(NOTION_RETRY_TIME)>>
    /\ attempts_count' = attempts_count + 1
    /\ IF attempts_count' < NOTION_MAX_RETRIES
         THEN UNCHANGED <<pc, err>>
         ELSE Raise("NotionClientError: Cannot get task result")
    /\ UNCHANGED <<client, max_attempts_count, task_id, export_url, file>>

\* Fault variant of PollError: the error payload is treated as 'not ready'.
PollError_Retried ==
    /\ AtPoll
    /\ log' = log \o <<Req("status", task_id, "error", ""), Sleep(NOTION_RETRY_TIME)>>
    /\ attempts_count' = attempts_count + 1
    /\ IF attempts_count' < NOTION_MAX_RETRIES
         THEN UNCHANGED <<pc, err>>
         ELSE Raise("NotionClientError: Cannot get task result")
    /\ UNCHANGED <<client, max_attempts_count, task_id, export_url, file>>

\* 'error' in results: raise NotionClientError(results['error']).
PollError ==
    /\ AtPoll
    /\ log' = Append(log, Req("status", task_id, "error", ""))
    /\ Raise("NotionClientError: error payload")
    /\ UNCHANGED <<client, attempts_count, max_attempts_count, task_id, export_url, file>>

\* status type 'complete': return status['exportURL']. export_page:
\* 'if export_url:' goes on to the download; a falsy URL makes export_page
\* return None with nothing downloaded.
PollComplete ==
    /\ AtPoll
    /\ \E u \in ExportUrls :
         /\ log' = Append(log, Req("status", task_id, "complete", u))
         /\ export_url' = u
         /\ pc' = IF Truthy(u) THEN "download" ELSE "returned"
    /\ UNCHANGED <<client, attempts_count, max_attempts_count, task_id, err, file>>

----------------------------------------------------------------------------
(* Addon client: the download of NotionClient.export_page                  *)

AtDownload == client = "addon" /\ pc = "download"

\* session.get raises (connection reset, timeout): nothing in export_page
\* catches it.
DownloadDisconnect ==
    /\ AtDownload
    /\ log' = Append(log, Req("download", export_url, "disconnect", ""))
    /\ Raise("RequestException")
    /\ UNCHANGED <<client, attempts_count, max_attempts_count, task_id, export_url, file>>

\* The answer has a 4xx/5xx status: r.raise_for_status() raises HTTPError
\* before the destination is opened.
DownloadHttpError ==
    /\ AtDownload
    /\ log' = Append(log, Req("download", export_url, "http_error", ""))
    /\ Raise("HTTPError")
    /\ UNCHANGED <<client, attempts_count, max_attempts_count, task_id, export_url, file>>

\* The stream breaks inside iter_content (ChunkedEncodingError): the
\* destination is open and holds the chunks written so far.
DownloadInterrupted ==
    /\ AtDownload
    /\ log' = Append(log, Req("download", export_url, "interrupted", ""))
    /\ file' = "partial"
    /\ Raise("ChunkedEncodingError")
    /\ UNCHANGED <<client, attempts_count, max_attempts_count, task_id, export_url>>

\* Every chunk is written to the destination; export_page returns.
DownloadOk ==
    /\ AtDownload
    /\ log' = Append(log, Req("download", export_url, "ok", ""))
    /\ file' = "archive"
    /\ pc' = "returned"
    /\ UNCHANGED <<client, attempts_count, max_attempts_count, task_id, export_url, err>>

----------------------------------------------------------------------------
(* Async client: NotionClient.enqueue_export_task (clients.py)             *)

AtAsyncEnqueue == client = "async" /\ pc = "enqueue"

\* session.post raises (connector error, server disconnected, timeout):
\* nothing catches it.
AsyncEnqueueDisconnect ==
    /\ AtAsyncEnqueue
    /\ log' = Append(log, Req("enqueue", page_id, "disconnect", ""))
    /\ Raise("ClientError")
    /\ UNCHANGED <<client, attempts_count, max_attempts_count, task_id, export_url, file>>

\* status == 401: response.raise_for_status() raises.
AsyncEnqueue401 ==
    /\ AtAsyncEnqueue
    /\ log' = Append(log, Req("enqueue", page_id, "401", ""))
    /\ Raise("ClientResponseError")
    /\ UNCHANGED <<client, attempts_count, max_attempts_count, task_id, export_url, file>>

\* status >= 500: the arguments of logger.error are evaluated first, and
\* self.config.NOTION_RETRY_TIME is no field of Config (config.py defines
\* NOTION_GET_TASK_RETRY_TIME only): AttributeError leaves the call.
AsyncEnqueue5xx ==
    /\ AtAsyncEnqueue
    /\ log' = Append(log, Req("enqueue", page_id, "5xx", ""))
    /\ Raise("AttributeError: NOTION_RETRY_TIME")
    /\ UNCHANGED <<client, attempts_count, max_attempts_count, task_id, export_url, file>>

\* Any other status whose body is no JSON (response.json() raises) or is
\* JSON without 'taskId' (EnqueueTaskSchema(**data) raises).
AsyncEnqueueInvalid ==
    /\ AtAsyncEnqueue
    /\ \E k \in {"undecodable", "empty", "no_task_id"} :
         /\ log' = Append(log, Req("enqueue", page_id, k, ""))
         /\ Raise(IF k = "undecodable" THEN "ContentTypeError" ELSE "ValidationError")
    /\ UNCHANGED <<client, attempts_count, max_attempts_count, task_id, export_url, file>>

\* Any other status with a taskId: return data.task_id. export_page calls
\* get_task_result without looking at the id; its loop starts with
\* attempts_count = 0 and, when max_attempts_count does not exceed that,
\* get_task_result returns None at once and export_page returns.
AsyncEnqueueTask ==
    /\ AtAsyncEnqueue
    /\ \E t \in TaskIds :
         /\ log' = Append(log, Req("enqueue", page_id, "task", t))
         /\ task_id' = t
    /\ attempts_count' = 0
    /\ pc' = IF 0 < max_attempts_count THEN "poll" ELSE "returned"
    /\ UNCHANGED <<client, max_attempts_count, export_url, err, file>>

----------------------------------------------------------------------------
(* Async client: NotionClient.get_task_result (clients.py)                 *)

AtAsyncPoll == client = "async" /\ pc = "poll" /\ attempts_count < max_attempts_count

\* session.post raises: nothing catches it.
AsyncPollDisconnect ==
    /\ AtAsyncPoll
    /\ log' = Append(log, Req("status", task_id, "disconnect", ""))
    /\ Raise("ClientError")
    /\ UNCHANGED <<client, attempts_count, max_attempts_count, task_id, export_url, file>>

\* A 4xx/5xx status (response.raise_for_status()), a body that is no JSON,
\* or one TaskResults(**data) rejects.
AsyncPollInvalid ==
    /\ AtAsyncPoll
    /\ \E k \in {"http_error", "undecodable", "no_results"} :
         /\ log' = Append(log, Req("status", task_id, k, ""))
         /\ Raise(CASE k = "http_error" -> "ClientResponseError"
                    [] k = "undecodable" -> "ContentTypeError"
                    [] OTHER -> "ValidationError")
    /\ UNCHANGED <<client, attempts_count, max_attempts_count, task_id, export_url, file>>

\* The task's result is not in state 'success': the arguments of
\* logger.debug are evaluated, and self.config.NOTION_RETRY_TIME is no
\* field of Config: AttributeError leaves the call before the sleep and
\* before attempts_count += 1.
AsyncPollNotReady ==
    /\ AtAsyncPoll
    /\ log' = Append(log, Req("status", task_id, "progress", ""))
    /\ Raise("AttributeError: NOTION_RETRY_TIME")
    /\ UNCHANGED <<client, attempts_count, max_attempts_count, task_id, export_url, file>>

\* The task's result is in state 'success': return task_result.
\* export_page asserts status.export_url and goes on to the download.
AsyncPollComplete ==
    /\ AtAsyncPoll
    /\ \E u \in ExportUrls :
         /\ log' = Append(log, Req("status", task_id, "complete", u))
         /\ export_url' = u
         /\ IF Truthy(u)
              THEN pc' = "download" /\ err' = err
              ELSE Raise("AssertionError")
    /\ UNCHANGED <<client, attempts_count, max_attempts_count, task_id, file>>

----------------------------------------------------------------------------
(* Async client: the download of NotionClient.export_page (clients.py)     *)

AtAsyncDownload == client = "async" /\ pc = "download"

\* session.get raises: nothing catches it.
AsyncDownloadDisconnect ==
    /\ AtAsyncDownload
    /\ log' = Append(log, Req("download", export_url, "disconnect", ""))
    /\ Raise("ClientError")
    /\ UNCHANGED <<client, attempts_count, max_attempts_count, task_id, export_url, file>>

\* response.read() raises after aiofiles.open created the destination.
AsyncDownloadInterrupted ==
    /\ AtAsyncDownload
    /\ log' = Append(log, Req("download", export_url, "interrupted", ""))
    /\ file' = "partial"
    /\ Raise("ClientPayloadError")
    /\ UNCHANGED <<client, attempts_count, max_attempts_count, task_id, export_url>>

\* The body of the answer is written to the destination whatever the
\* status of the answer is (no raise_for_status here); export_page returns.
AsyncDownload ==
    /\ AtAsyncDownload
    /\ \E k \in {"ok", "http_error"} :
         /\ log' = Append(log, Req("download", export_url, k, ""))
         /\ file' = IF k = "ok" THEN "archive" ELSE "error_page"
    /\ pc' = "returned"
    /\ UNCHANGED <<client, attempts_count, max_attempts_count, task_id, export_url, err>>

----------------------------------------------------------------------------
(* Specification *)

Next ==
    \/ EnqueueDisconnect /\ UNCHANGED notExportVars
    \/ Enqueue401 /\ UNCHANGED notExportVars
    \/ Enqueue5xx /\ UNCHANGED notExportVars
    \/ EnqueueUndecodable /\ UNCHANGED notExportVars
    \/ EnqueueEmpty /\ UNCHANGED notExportVars
    \/ EnqueueNoTaskId /\ UNCHANGED notExportVars
    \/ EnqueueTask /\ UNCHANGED notExportVars
    \/ PollDisconnect /\ UNCHANGED notExportVars
    \/ PollNotReady /\ UNCHANGED notExportVars
    \/ PollError /\ UNCHANGED notExportVars
    \/ PollComplete /\ UNCHANGED notExportVars
    \/ DownloadDisconnect /\ UNCHANGED notExportVars
    \/ DownloadHttpError /\ UNCHANGED notExportVars
    \/ DownloadInterrupted /\ UNCHANGED notExportVars
    \/ DownloadOk /\ UNCHANGED notExportVars
    \/ AsyncEnqueueDisconnect /\ UNCHANGED notExportVars
    \/ AsyncEnqueue401 /\ UNCHANGED notExportVars
    \/ AsyncEnqueue5xx /\ UNCHANGED notExportVars
    \/ AsyncEnqueueInvalid /\ UNCHANGED notExportVars
    \/ AsyncEnqueueTask /\ UNCHANGED notExportVars
    \/ AsyncPollDisconnect /\ UNCHANGED notExportVars
    \/ AsyncPollInvalid /\ UNCHANGED notExportVars
    \/ AsyncPollNotReady /\ UNCHANGED notExportVars
    \/ AsyncPollComplete /\ UNCHANGED notExportVars
    \/ AsyncDownloadDisconnect /\ UNCHANGED notExportVars
    \/ AsyncDownloadInterrupted /\ UNCHANGED notExportVars
    \/ AsyncDownload /\ UNCHANGED notExportVars

Spec == Init /\ [][Next]_vars

TypeOK ==
    /\ client \in {"addon", "async"}
    /\ pc \in {"enqueue", "poll", "download", "returned", "raised"}
    /\ attempts_count \in 0..NOTION_MAX_RETRIES
    /\ task_id \in TaskIds \cup {None}
    /\ export_url \in ExportUrls \cup {None}
    /\ file \in {"absent", "partial", "archive", "error_page"}
    /\ (pc = "raised") = (err # None)

----------------------------------------------------------------------------
(* Properties of the export call *)

Addon == client = "addon"

Is5xxEnqueue(e) == e.op = "enqueue" /\ e.resp = "5xx"
\* A request that ended in one of CONNECTION_EXCEPTIONS: raised by the
\* request itself, or by the stream of the download breaking off.
IsDisconnect(e) == e.resp \in {"disconnect", "interrupted"}

\* The retry bound of the running client's poll loop.
PollBudget == IF Addon THEN NOTION_MAX_RETRIES ELSE max_attempts_count

\* Position in log of the last request of kind op (0 when there is none).
LastIndex(op) ==
    LET I == {i \in DOMAIN log : log[i].op = op}
    IN IF I = {} THEN 0 ELSE CHOOSE i \in I : \A j \in I : j <= i

\* C1: in the addon client a 401 answer to the enqueue request ends the
\* export at once with NotionClientError('Invalid token'): it is the last
\* event of the call (no enqueue request, sleep, status request or download
\* follows), however many 5xx answers came before it.
C1_UnauthorizedFailsAtOnce ==
    Addon =>
      \A i \in DOMAIN log :
        (log[i].op = "enqueue" /\ log[i].resp = "401") =>
          /\ i = Len(log)
          /\ pc = "raised"
          /\ err = "NotionClientError: Invalid token"
          /\ task_id = None
          /\ file = "absent"

\* A 401 answer after at least one 5xx answer.
C1_Witness ==
    /\ Addon
    /\ Len(log) >= 3
    /\ Is5xxEnqueue(log[1])
    /\ log[Len(log)].op = "enqueue" /\ log[Len(log)].resp = "401"

\* C2: in the addon client every 5xx answer to the enqueue request spends
\* one unit of the budget of NOTION_MAX_RETRIES and is followed by one
\* sleep of NOTION_RETRY_TIME before anything else; when every answer is
\* 5xx the call sends exactly NOTION_MAX_RETRIES requests and raises
\* 'Cannot submit export task' without a task id.
C2_ServerErrorsSpendBudget ==
    Addon =>
      LET n5 == Len(SelectSeq(log, Is5xxEnqueue)) IN
      /\ \A i \in DOMAIN log :
           Is5xxEnqueue(log[i]) =>
             i < Len(log) /\ log[i + 1] = Sleep(NOTION_RETRY_TIME)
      /\ \A i \in DOMAIN log :
           IsSleep(log[i]) =>
             /\ i > 1
             /\ log[i - 1].op \in {"enqueue", "status"}
             /\ log[i - 1].op = "enqueue" => log[i - 1].resp = "5xx"
      /\ n5 <= NOTION_MAX_RETRIES
      /\ pc = "enqueue" => attempts_count = n5 /\ n5 < NOTION_MAX_RETRIES
      /\ (pc # "enqueue" /\ n5 = Len(EnqueueReqs)) =>
           /\ Len(EnqueueReqs) = NOTION_MAX_RETRIES
           /\ pc = "raised"
           /\ err = "NotionClientError: Cannot submit export task"
           /\ task_id = None

\* The budget spent on 5xx answers alone.
C2_Witness ==
    /\ Addon
    /\ pc = "raised"
    /\ err = "NotionClientError: Cannot submit export task"
    /\ Len(EnqueueReqs) = NOTION_MAX_RETRIES
    /\ Len(SelectSeq(log, Is5xxEnqueue)) = NOTION_MAX_RETRIES

\* C3: in the addon client an enqueue answer whose status is neither 401
\* nor 5xx ends the enqueue phase with the task id that answer carries and
\* no further enqueue request, so the phase never takes more than
\* NOTION_MAX_RETRIES requests.
C3_OtherAnswerYieldsTaskId ==
    Addon =>
      /\ \A i \in DOMAIN log :
           (log[i].op = "enqueue" /\ log[i].resp \notin {"401", "5xx", "disconnect"}) =>
             /\ i = LastIndex("enqueue")
             /\ pc # "enqueue"
             /\ log[i].resp = "task"
             /\ task_id = log[i].val
      /\ Len(EnqueueReqs) <= NOTION_MAX_RETRIES

\* The part of C3 the addon client keeps: an answer that carries a task id
\* ends the enqueue phase with that id.
C3_TaskAnswerEndsEnqueue ==
    Addon =>
      \A i \in DOMAIN log :
        (log[i].op = "enqueue" /\ log[i].resp = "task") =>
          /\ i = LastIndex("enqueue")
          /\ pc # "enqueue"
          /\ task_id = log[i].val

C5_ErrorPayloadFailsAtOnce ==
    Addon =>
      \A i \in DOMAIN log :
        (log[i].op = "status" /\ log[i].resp = "error") =>
          /\ i = Len(log)
          /\ pc = "raised"
          /\ err = "NotionClientError: error payload"
          /\ export_url = None
          /\ file = "absent"

\* An error payload on the second poll, with attempts left.
C5_Witness ==
    /\ Addon
    /\ Len(StatusReqs) = 2
    /\ Len(StatusReqs) < NOTION_MAX_RETRIES
    /\ StatusReqs[1].resp = "progress"
    /\ StatusReqs[2].resp = "error"

\* What C6 asks of a get_task_result: while the answers report progress
\* and attempts are left it polls again, and the first 'complete' answer,
\* after k progress answers, is the (k+1)-th and last status request: its
\* URL is returned and neither a status request nor a sleep follows it.
ProgressThenComplete ==
    LET S == StatusReqs
        n == Len(S)
    IN (n > 0 /\ \A j \in 1..(n - 1) : S[j].resp = "progress") =>
         /\ (S[n].resp = "progress" /\ n < PollBudget) => pc = "poll"
         /\ S[n].resp = "complete" =>
              /\ n <= PollBudget
              /\ export_url = S[n].val
              /\ pc # "poll"
              /\ \A i \in DOMAIN log :
                   i > LastIndex("status") => log[i].op = "download"

\* C6: for every k below the retry bound, k in-progress poll answers
\* followed by a 'complete' answer make get_task_result return that
\* answer's download URL after exactly k+1 status requests, with no status
\* request and no sleep after the 'complete' answer (both clients).
C6_ProgressThenComplete == ProgressThenComplete

\* C6 for the addon client alone.
C6_AddonProgressThenComplete == Addon => ProgressThenComplete

\* The addon client returning a URL on the last attempt it has.
C6_AddonWitness ==
    /\ Addon
    /\ Len(StatusReqs) = NOTION_MAX_RETRIES
    /\ \A j \in 1..(NOTION_MAX_RETRIES - 1) : StatusReqs[j].resp = "progress"
    /\ StatusReqs[NOTION_MAX_RETRIES].resp = "complete"
    /\ export_url = "u2"

\* C7: in the addon client a network-level disconnect raised by a request
\* of the enqueue, poll or download phase is caught and retried after the
\* backoff of a 5xx answer: a sleep of NOTION_RETRY_TIME follows it.
C7_DisconnectRetried ==
    Addon =>
      \A i \in DOMAIN log :
        IsDisconnect(log[i]) =>
          i < Len(log) /\ log[i + 1] = Sleep(NOTION_RETRY_TIME)

\* C7 as the addon client has it: a disconnect is never retried. It is the
\* last event of the call and surfaces at once, whatever budget is left:
\* as NotionClientError('Request error') in the enqueue and poll phases, as
\* the uncaught requests exception in the download phase (where a stream
\* that broke off leaves a partial file behind).
C7_DisconnectFailsAtOnce ==
    Addon =>
      \A i \in DOMAIN log :
        IsDisconnect(log[i]) =>
          /\ i = Len(log)
          /\ pc = "raised"
          /\ err = CASE log[i].resp = "interrupted" -> "ChunkedEncodingError"
                     [] log[i].op = "download" -> "RequestException"
                     [] OTHER -> "NotionClientError: Request error"
          /\ file = IF log[i].resp = "interrupted" THEN "partial" ELSE "absent"

\* A disconnect on the second poll, with attempts left.
C7_Witness ==
    /\ Addon
    /\ Len(StatusReqs) = 2
    /\ Len(StatusReqs) < NOTION_MAX_RETRIES
    /\ IsDisconnect(StatusReqs[2])
    /\ pc = "raised"

\* Phase of a request: enqueue, then poll, then download.
Phase(e) ==
    CASE e.op = "enqueue" -> 1
      [] e.op = "status" -> 2
      [] e.op = "download" -> 3
      [] OTHER -> 0

\* C8: within one export_page call of the addon client the phases only
\* move forward: requests appear in the order enqueue, status, download;
\* once a task id is obtained no enqueue request follows; every status
\* request names that task id; the download is sent only right after a
\* 'complete' poll answer and fetches its URL.
C8_PhasesMoveForward ==
    Addon =>
      /\ \A i, j \in DOMAIN log :
           (i < j /\ ~IsSleep(log[i]) /\ ~IsSleep(log[j])) =>
             Phase(log[i]) <= Phase(log[j])
      /\ task_id = None =>
           \A i \in DOMAIN log : log[i].op \notin {"status", "download"}
      /\ task_id # None =>
           /\ log[LastIndex("enqueue")].resp = "task"
           /\ log[LastIndex("enqueue")].val = task_id
           /\ Len(SelectSeq(log, LAMBDA e : e.op = "enqueue" /\ e.resp = "task")) = 1
      /\ \A i \in DOMAIN log :
           IsStatus(log[i]) => log[i].arg = task_id /\ Truthy(task_id)
      /\ \A i \in DOMAIN log :
           IsDownload(log[i]) =>
             /\ i = Len(log)
             /\ i > 1
             /\ log[i - 1].op = "status"
             /\ log[i - 1].resp = "complete"
             /\ log[i - 1].val = log[i].arg
             /\ log[i].arg = export_url

\* A call that retried in both loops and downloaded the archive.
C8_Witness ==
    /\ Addon
    /\ Len(EnqueueReqs) >= 2
    /\ Len(StatusReqs) >= 2
    /\ \E j \in DOMAIN StatusReqs : StatusReqs[j].resp = "undecodable"
    /\ log[Len(log)].op = "download"
    /\ file = "archive"

\* C9: the enqueue retry counter and the poll attempt counter of the addon
\* client are independent: n < NOTION_MAX_RETRIES consecutive 5xx enqueue
\* answers followed by a success make exactly n retries, each after one
\* sleep of NOTION_RETRY_TIME, and the poll phase that follows still has
\* all its NOTION_MAX_RETRIES attempts.
C9_BudgetsIndependent ==
    LET E == EnqueueReqs
        n == Len(E) - 1
    IN (/\ Addon
        /\ Len(E) >= 1
        /\ E[Len(E)].resp = "task"
        /\ Truthy(E[Len(E)].val)
        /\ \A j \in 1..n : E[j].resp = "5xx") =>
          /\ n < NOTION_MAX_RETRIES
          /\ \A j \in 1..n :
               /\ Is5xxEnqueue(log[2 * j - 1])
               /\ log[2 * j] = Sleep(NOTION_RETRY_TIME)
          /\ log[2 * n + 1] = E[n + 1]
          /\ pc = "poll" => attempts_count = Len(StatusReqs)
          /\ (Len(StatusReqs) < NOTION_MAX_RETRIES
                /\ \A j \in DOMAIN StatusReqs : StatusReqs[j].resp \in NotReadyKinds) =>
               pc = "poll"
          /\ err = "NotionClientError: Cannot get task result" =>
               Len(StatusReqs) = NOTION_MAX_RETRIES

\* The longest enqueue retry run followed by a poll that used every attempt.
C9_Witness ==
    /\ Addon
    /\ Len(EnqueueReqs) = NOTION_MAX_RETRIES
    /\ Len(SelectSeq(log, Is5xxEnqueue)) = NOTION_MAX_RETRIES - 1
    /\ Len(StatusReqs) = NOTION_MAX_RETRIES
    /\ err = "NotionClientError: Cannot get task result"

\* C10: whenever export_page returns without raising (addon client and
\* async client), the completed export has been downloaded and written to
\* the destination path.
C10_ReturnDeliversArchive ==
    pc = "returned" =>
      /\ file = "archive"
      /\ LastIndex("download") = Len(log)
      /\ log[Len(log)].resp = "ok"

\* What both clients do keep of C10: a destination that holds the archive
\* was written by a download of the URL of a 'complete' poll answer.
C10_ArchiveComesFromDownload ==
    file = "archive" =>
      /\ pc = "returned"
      /\ LastIndex("download") = Len(log)
      /\ log[Len(log)].arg = export_url
      /\ Truthy(export_url)

\* C33: in the async client a 5xx answer to the enqueue request is retried
\* only after a wait of the retry interval and only a bounded number of
\* times: every 5xx answer is followed by one sleep of the interval or ends
\* the call with an error of the export, and never more than
\* NOTION_MAX_RETRIES enqueue requests are answered 5xx.
C33_AsyncServerErrorRetriedAfterWait ==
    client = "async" =>
      /\ \A i \in DOMAIN log :
           Is5xxEnqueue(log[i]) =>
             \/ i < Len(log) /\ log[i + 1] = Sleep(NOTION_RETRY_TIME)
             \/ /\ i = Len(log)
                /\ pc = "raised"
                /\ err = "NotionClientError: Cannot submit export task"
      /\ Len(SelectSeq(log, Is5xxEnqueue)) <= NOTION_MAX_RETRIES

\* The async client got 5xx for its first enqueue request: no wait and no
\* second request, the call has ended with the AttributeError of the
\* logging statement.
C33_AsyncFirstServerErrorEndsCall ==
    /\ client = "async"
    /\ log = <<Req("enqueue", page_id, "5xx", "")>>
    /\ pc = "raised"
    /\ err = "AttributeError: NOTION_RETRY_TIME"

\* What does hold: the async client sends at most one enqueue request.
C33_AsyncEnqueuesOnce ==
    client = "async" => Len(EnqueueReqs) <= 1


----------------------------------------------------------------------------
(* sync(): the page tasks under asyncio.gather (src/notion_anki_sync/sync.py) *)

\* Bound: the number of entries of config.NOTION_TARGET_PAGES.
NumPages == 3

TargetPages == 1..NumPages

\* The stages of sync_page in which an exception can leave the task.
FailureStages == {"export", "archive", "extraction", "create"}

Unfinished(p) == tasks[p] \in {"exporting", "creating"}

\* sync.py:94-100: one task per target page, all handed to asyncio.gather.
SyncStart ==
    /\ tasks = [p \in TargetPages |-> "exporting"]
    /\ failure = [p \in TargetPages |-> None]
    /\ sync_state = "gathering"

\* sync_page 62-77: export_page returned; the archive is unpacked and the notes
\* are extracted without another await, then create_notes is awaited.
TaskExported(p) ==
    /\ tasks[p] = "exporting"
    /\ tasks' = [tasks EXCEPT ![p] = "creating"]
    /\ UNCHANGED <<failure, sync_state>>

\* sync_page 78-79: create_notes returned, the task is done.
TaskCreated(p) ==
    /\ tasks[p] = "creating"
    /\ tasks' = [tasks EXCEPT ![p] = "done"]
    /\ UNCHANGED <<failure, sync_state>>

\* An exception leaves sync_page: export_page raised (63), ZipFile raised
\* (70-71), extract_notes_data raised (73-74) or create_notes raised (79).
\* Nothing in sync_page catches it.
TaskFailed(p) ==
    /\ \E stage \in FailureStages :
          /\ tasks[p] = (IF stage = "create" THEN "creating" ELSE "exporting")
          /\ failure' = [failure EXCEPT ![p] = stage]
    /\ tasks' = [tasks EXCEPT ![p] = "failed"]
    /\ UNCHANGED sync_state

\* sync.py:100 with asyncio.gather's default return_exceptions=False: the
\* first exception of a task is raised in sync() at once; nothing up to
\* asyncio.run (main, 110-115) catches it, so the loop is shut down and every
\* task that has not ended is cancelled.
GatherRaised ==
    /\ sync_state = "gathering"
    /\ \E p \in TargetPages : tasks[p] = "failed"
    /\ sync_state' = "raised"
    /\ tasks' = [p \in TargetPages |->
                    IF Unfinished(p) THEN "cancelled" ELSE tasks[p]]
    /\ UNCHANGED failure

\* sync.py:100-107: every task returned; trigger_sync, then sleep SYNC_EVERY.
GatherReturned ==
    /\ sync_state = "gathering"
    /\ \A p \in TargetPages : tasks[p] = "done"
    /\ sync_state' = "sleeping"
    /\ UNCHANGED <<tasks, failure>>

\* sync.py:84: the next round of the while loop.
SyncAgain ==
    /\ sync_state = "sleeping"
    /\ tasks' = [p \in TargetPages |-> "exporting"]
    /\ sync_state' = "gathering"
    /\ UNCHANGED failure

SyncNext ==
    \/ \E p \in TargetPages : TaskExported(p) /\ UNCHANGED notSyncVars
    \/ \E p \in TargetPages : TaskCreated(p) /\ UNCHANGED notSyncVars
    \/ \E p \in TargetPages : TaskFailed(p) /\ UNCHANGED notSyncVars
    \/ GatherRaised /\ UNCHANGED notSyncVars
    \/ GatherReturned /\ UNCHANGED notSyncVars
    \/ SyncAgain /\ UNCHANGED notSyncVars

SyncInit == ExportIdle /\ SyncStart /\ ParserIdle /\ DocumentIdle /\ PluginIdle /\ BlockIdIdle

SpecSync == SyncInit /\ [][SyncNext]_vars

\* C11: with several target pages synced concurrently, the failure of one
\* page's pipeline does not keep the pipelines of the other pages from running
\* to completion: once sync() has stopped gathering, every page whose own
\* pipeline did not fail has delivered its notes.
C11_SiblingsComplete ==
    sync_state \in {"raised", "sleeping"} =>
        \A p \in TargetPages : failure[p] = None => tasks[p] = "done"

\* One page failed and a sibling that had not failed was cancelled.
C11_SiblingCancelled ==
    /\ sync_state = "raised"
    /\ \E p, q \in TargetPages :
          /\ tasks[p] = "failed"
          /\ tasks[q] = "cancelled" /\ failure[q] = None

----------------------------------------------------------------------------
(* Text (src/notion_sync_addon/parser.py)                                   *)
(*                                                                          *)
(* A Python str is a sequence of glyphs (each glyph a TLA+ string holding   *)
(* one or a few characters that the code never takes apart); str equality   *)
(* is equality of glyph sequences, ''.join is concatenation.  An            *)
(* Optional[x] is a sequence of length 0 (None) or 1 (the value).           *)

Some(x) == <<x>>

Whitespace == {" ", "\n", "\r", "\t"}

\* Glyphs for which str.isalnum() is false.
NotAlnum == Whitespace \cup
    {"/", ".", "_", "-", "#", "%", "<", "</", ">", "=\"", "\"", "{{c", "::", "}}",
     "\\(", "\\)", "\\[", "\\]"}

\* ''.join(tokens)
RECURSIVE Join(_)
Join(tokens) ==
    IF tokens = <<>> THEN <<>> ELSE Head(tokens) \o Join(Tail(tokens))

\* s.startswith(p)
StartsWith(s, p) == Len(s) >= Len(p) /\ SubSeq(s, 1, Len(p)) = p

\* s.replace(old, new) for a non-empty old: left to right, not overlapping
RECURSIVE Replace(_, _, _)
Replace(s, old, new) ==
    IF Len(s) < Len(old) THEN s
    ELSE IF StartsWith(s, old)
         THEN new \o Replace(SubSeq(s, Len(old) + 1, Len(s)), old, new)
         ELSE <<Head(s)>> \o Replace(Tail(s), old, new)

\* s.split(sep) for a one-glyph separator
RECURSIVE Split(_, _)
Split(s, sep) ==
    IF \A i \in 1..Len(s) : s[i] # sep THEN <<s>>
    ELSE LET i == CHOOSE k \in 1..Len(s) :
                      s[k] = sep /\ \A j \in 1..(k - 1) : s[j] # sep
         IN <<SubSeq(s, 1, i - 1)>> \o Split(SubSeq(s, i + 1, Len(s)), sep)

\* s.strip()
Strip(s) ==
    LET keep == {i \in 1..Len(s) : s[i] \notin Whitespace}
    IN IF keep = {} THEN <<>>
       ELSE SubSeq(s, CHOOSE i \in keep : \A j \in keep : i <= j,
                      CHOOSE i \in keep : \A j \in keep : i >= j)

NonEmpty(s) == s # <<>>

\* [tag.strip() for tag in data.split('#') if tag.strip()]   (227-229)
TagList(data) ==
    LET pieces == Split(data, "#")
    IN SelectSeq([i \in 1..Len(pieces) |-> Strip(pieces[i])], NonEmpty)

\* ''.join(c for c in src if c.isalnum())   (203, 290)
RECURSIVE AlnumOnly(_)
AlnumOnly(s) ==
    IF s = <<>> THEN <<>>
    ELSE (IF Head(s) \in NotAlnum THEN <<>> ELSE <<Head(s)>>) \o AlnumOnly(Tail(s))

\* urllib.parse.unquote, for the one escape the inputs use ('%20')
Unquote(s) == Replace(s, <<"%", "20">>, <<" ">>)

\* Path(...).name: what follows the last "/"
PathName(path) ==
    LET slashes == {i \in 1..Len(path) : path[i] = "/"}
    IN IF slashes = {} THEN path
       ELSE SubSeq(path, (CHOOSE i \in slashes : \A j \in slashes : i >= j) + 1,
                   Len(path))

\* EMPTY_P_RE.sub('', back) with EMPTY_P_RE = '<p [^>]*></p>'   (99, 294)
RECURSIVE RemoveEmptyP(_)
RemoveEmptyP(s) ==
    IF s = <<>> THEN s
    ELSE LET rest == SubSeq(s, 4, Len(s))
             gts == {i \in 1..Len(rest) : rest[i] = ">"}
             k == CHOOSE i \in gts : \A j \in gts : i <= j
         IN IF /\ StartsWith(s, <<"<", "p", " ">>)
               /\ gts # {}
               /\ StartsWith(SubSeq(rest, k + 1, Len(rest)), <<"</", "p", ">">>)
            THEN RemoveEmptyP(SubSeq(rest, k + 4, Len(rest)))
            ELSE <<Head(s)>> \o RemoveEmptyP(Tail(s))

----------------------------------------------------------------------------
(* NoteDataExtractor (src/notion_sync_addon/parser.py)                      *)
(*                                                                          *)
(* The handlers are functions of the parser's fields; `exc` is the          *)
(* exception that left a handler (None while none).                         *)

ALLOWED_TAGS ==
    {"h1", "h2", "h3", "p", "strong", "summary", "em", "del", "pre", "code",
     "mark", "ul", "ol", "li", "div", "span", "blockquote", "hr", "figure",
     "a", "img"}

SKIP_ATTRIBUTES == {"id"}

INLINE_LATEX_CLASS == <<"notion-text-equation-token">>
BLOCK_LATEX_CLASS == <<"equation">>
ANKI_BLOCK_LATEX_TAGS == << <<"\\[">>, <<"\\]">> >>
ANKI_INLINE_LATEX_TAGS == << <<"\\(">>, <<"\\)">> >>

\* One attribute of a start tag.
Attr(name, value) == [name |-> name, value |-> value]

\* f'<{tag}>' and f'</{tag}>'
StartTag(tag) == <<"<", tag, ">">>
EndTag(tag) == <<"</", tag, ">">>

\* The cloze markers f'{{{{c{n}::' and '}}'   (256, 258)
ClozeOpen(n) == <<"{{c", ToString(n), "::">>
ClozeClose == <<"}}">>

\* NoteDataExtractor.__init__ (101-123)
NewParser ==
    [note_data |-> [front |-> <<>>, tags |-> <<>>, images |-> <<>>],
     buffer |-> <<>>,
     collecting_started |-> FALSE,
     skipped_before |-> 0,
     capture_tag |-> FALSE,
     in_latex |-> FALSE,
     skipped_in_latex |-> 0,
     latex_tags |-> <<>>,
     clozes_count |-> 0,
     exc |-> None]

\* _get_attr_by_name (125-137): the first attribute of that name, or None
GetAttrByName(name, attrs) ==
    LET hits == SelectSeq(attrs, LAMBDA a : a.name = name)
    IN IF hits = <<>> THEN <<>> ELSE Some(hits[1].value)

\* _check_if_latex (139-154)
CheckIfLatex(tag, attrs) ==
    LET class_ == GetAttrByName("class", attrs)
    IN IF tag \in {"span", "figure"} /\ class_ = Some(BLOCK_LATEX_CLASS)
          THEN Some(ANKI_BLOCK_LATEX_TAGS)
       ELSE IF tag \in {"span", "figure"} /\ class_ = Some(INLINE_LATEX_CLASS)
          THEN Some(ANKI_INLINE_LATEX_TAGS)
       ELSE <<>>

\* ' '.join(f'{attr}="{value}"' for attr, value in attrs if attr not in
\* SKIP_ATTRIBUTES)   (190-194)
RECURSIVE JoinAttrs(_)
JoinAttrs(attrs) ==
    IF attrs = <<>> THEN <<>>
    ELSE <<Head(attrs).name, "=\"">> \o Head(attrs).value \o <<"\"">>
         \o (IF Tail(attrs) = <<>> THEN <<>> ELSE <<" ">> \o JoinAttrs(Tail(attrs)))

\* Mutant of AttrsAndValues: the attribute id is written like the others.
AttrsAndValues_IdKept(attrs) == JoinAttrs(attrs)

AttrsAndValues(attrs) ==
    JoinAttrs(SelectSeq(attrs, LAMBDA a : a.name \notin SKIP_ATTRIBUTES))

\* The start tag as appended to the buffer (195-198)
StartTagText(tag, attrs) ==
    IF AttrsAndValues(attrs) # <<>>
    THEN <<"<", tag, " ">> \o AttrsAndValues(attrs) \o <<">">>
    ELSE StartTag(tag)

\* image.filename = f'{prefix}_{abs_path.name}'   (203-207, 290-291)
Filename(src) == AlnumOnly(src) \o <<"_">> \o PathName(Unquote(src))

\* handle_starttag 200-211: the img tag is registered; fs maps every readable
\* path under base_dir to its bytes, read_bytes of another path raises OSError.
TrackImage(st, attrs, fs) ==
    LET src == GetAttrByName("src", attrs)
    IN IF src = <<>> \/ src = Some(<<>>)
          THEN [st EXCEPT !.exc = "AssertionError"]
       ELSE IF Unquote(src[1]) \notin DOMAIN fs
          THEN [st EXCEPT !.exc = "OSError"]
       ELSE LET image == [src |-> src[1],
                          filename |-> Filename(src[1]),
                          abs_path |-> Unquote(src[1]),
                          data |-> fs[Unquote(src[1])]]
            IN [st EXCEPT !.note_data.images =
                              Some((IF @ = <<>> THEN <<>> ELSE @[1]) \o <<image>>)]

\* Mutant of HandleStartTag: the start tag of an equation wrapper leaves
\* capture_tag as it was.
HandleStartTag_LatexCaptured(st, tag, attrs, fs) ==
    IF tag = "summary"
       THEN [st EXCEPT !.collecting_started = TRUE, !.capture_tag = TRUE]
    ELSE IF ~st.collecting_started
       THEN [st EXCEPT !.skipped_before = @ + 1]
    ELSE IF st.in_latex
       THEN [st EXCEPT !.skipped_in_latex = @ + 1,
                       !.capture_tag = IF tag = "annotation" THEN TRUE ELSE @]
    ELSE IF tag \notin ALLOWED_TAGS
       THEN [st EXCEPT !.capture_tag = FALSE]
    ELSE LET latex == CheckIfLatex(tag, attrs)
             emitted ==
                 IF latex # <<>>
                 THEN [st EXCEPT !.latex_tags = latex,
                                 !.buffer = Append(@, latex[1][1]),
                                 !.in_latex = TRUE]
                 ELSE [st EXCEPT !.capture_tag = TRUE,
                                 !.buffer = Append(@, StartTagText(tag, attrs))]
         IN IF tag = "img" THEN TrackImage(emitted, attrs, fs) ELSE emitted

\* Mutant of HandleStartTag: an img tag is registered only where emission
\* was not suppressed.
HandleStartTag_ImageIfCaptured(st, tag, attrs, fs) ==
    IF tag = "summary"
       THEN [st EXCEPT !.collecting_started = TRUE, !.capture_tag = TRUE]
    ELSE IF ~st.collecting_started
       THEN [st EXCEPT !.skipped_before = @ + 1]
    ELSE IF st.in_latex
       THEN [st EXCEPT !.skipped_in_latex = @ + 1,
                       !.capture_tag = IF tag = "annotation" THEN TRUE ELSE @]
    ELSE IF tag \notin ALLOWED_TAGS
       THEN [st EXCEPT !.capture_tag = FALSE]
    ELSE LET latex == CheckIfLatex(tag, attrs)
             emitted ==
                 IF latex # <<>>
                 THEN [st EXCEPT !.latex_tags = latex,
                                 !.buffer = Append(@, latex[1][1]),
                                 !.capture_tag = FALSE,
                                 !.in_latex = TRUE]
                 ELSE [st EXCEPT !.capture_tag = TRUE,
                                 !.buffer = Append(@, StartTagText(tag, attrs))]
         IN IF tag = "img" /\ st.capture_tag THEN TrackImage(emitted, attrs, fs)
            ELSE emitted

\* handle_starttag (156-211)
HandleStartTag(st, tag, attrs, fs) ==
    IF tag = "summary"
       THEN [st EXCEPT !.collecting_started = TRUE, !.capture_tag = TRUE]
    ELSE IF ~st.collecting_started
       THEN [st EXCEPT !.skipped_before = @ + 1]
    ELSE IF st.in_latex
       THEN [st EXCEPT !.skipped_in_latex = @ + 1,
                       !.capture_tag = IF tag = "annotation" THEN TRUE ELSE @]
    ELSE IF tag \notin ALLOWED_TAGS
       THEN [st EXCEPT !.capture_tag = FALSE]
    ELSE LET latex == CheckIfLatex(tag, attrs)
             emitted ==
                 IF latex # <<>>
                 THEN [st EXCEPT !.latex_tags = latex,
                                 !.buffer = Append(@, latex[1][1]),
                                 !.capture_tag = FALSE,
                                 !.in_latex = TRUE]
                 ELSE [st EXCEPT !.capture_tag = TRUE,
                                 !.buffer = Append(@, StartTagText(tag, attrs))]
         IN IF tag = "img" THEN TrackImage(emitted, attrs, fs) ELSE emitted

\* Mutant of HandleData: every '#' chunk replaces the tag list.
HandleData_TagsReplaced(st, data) ==
    IF ~st.capture_tag THEN st
    ELSE IF StartsWith(data, <<"#">>) /\ ~st.in_latex
       THEN [st EXCEPT !.note_data.tags = Some(TagList(data))]
    ELSE [st EXCEPT !.buffer = Append(@, data)]

\* Mutant of HandleData: a '#' chunk is a tag list only before the summary
\* end tag.
HandleData_FrontOnly(st, data) ==
    IF ~st.capture_tag THEN st
    ELSE IF /\ StartsWith(data, <<"#">>) /\ st.note_data.tags = <<>> /\ ~st.in_latex
            /\ st.note_data.front = <<>>
       THEN [st EXCEPT !.note_data.tags = Some(TagList(data))]
    ELSE [st EXCEPT !.buffer = Append(@, data)]

\* handle_data (213-233)
HandleData(st, data) ==
    IF ~st.capture_tag THEN st
    ELSE IF StartsWith(data, <<"#">>) /\ st.note_data.tags = <<>> /\ ~st.in_latex
       THEN [st EXCEPT !.note_data.tags = Some(TagList(data))]
    ELSE [st EXCEPT !.buffer = Append(@, data)]

\* handle_endtag 253-258: the cloze scan of the front buffer
RECURSIVE ClozeScan(_, _)
ClozeScan(buffer, count) ==
    IF buffer = <<>> THEN [buffer |-> <<>>, clozes_count |-> count]
    ELSE IF Head(buffer) = StartTag("code")
       THEN LET r == ClozeScan(Tail(buffer), count + 1)
            IN [r EXCEPT !.buffer = <<ClozeOpen(count + 1)>> \o @]
    ELSE IF Head(buffer) = EndTag("code")
       THEN LET r == ClozeScan(Tail(buffer), count)
            IN [r EXCEPT !.buffer = <<ClozeClose>> \o @]
    ELSE LET r == ClozeScan(Tail(buffer), count)
         IN [r EXCEPT !.buffer = <<Head(buffer)>> \o @]

\* handle_endtag 247-270, after the LaTeX bookkeeping
EndTagCaptured(st, tag) ==
    IF ~st.capture_tag THEN st
    ELSE IF tag = "summary"
       THEN LET scan == ClozeScan(st.buffer, st.clozes_count)
            IN [st EXCEPT !.clozes_count = scan.clozes_count,
                          !.note_data.front = Some(Join(scan.buffer)),
                          !.buffer = <<>>]
    ELSE IF tag = "annotation" /\ st.in_latex
       THEN [st EXCEPT !.buffer = Append(@, st.latex_tags[1][2]),
                       !.capture_tag = FALSE]
    ELSE [st EXCEPT !.buffer = Append(@, EndTag(tag))]

\* handle_endtag (235-270)
HandleEndTag(st, tag) ==
    IF st.in_latex /\ st.skipped_in_latex = 0
       THEN [st EXCEPT !.in_latex = FALSE, !.capture_tag = TRUE]
    ELSE IF st.in_latex
       THEN EndTagCaptured([st EXCEPT !.skipped_in_latex = @ - 1], tag)
    ELSE EndTagCaptured(st, tag)

\* The tokens t for which `t in '\n\r'` holds (a substring test, 283)
TrailingNewlines == {<<>>, <<"\n">>, <<"\r">>, <<"\n", "\r">>}

\* get_data 283-284: while self._buffer[-1] in '\n\r': self._buffer.pop();
\* an empty buffer has no last element (IndexError).
RECURSIVE PopTrailingNewlines(_)
PopTrailingNewlines(buffer) ==
    IF buffer = <<>> THEN [exc |-> "IndexError", buffer |-> buffer]
    ELSE IF buffer[Len(buffer)] \in TrailingNewlines
       THEN PopTrailingNewlines(SubSeq(buffer, 1, Len(buffer) - 1))
    ELSE [exc |-> None, buffer |-> buffer]

\* get_data 286: self._buffer[: -self._skipped_before]; the slice [: -0] is
\* [: 0], the empty list.
DropSkipped(buffer, skipped_before) ==
    IF skipped_before = 0 \/ skipped_before >= Len(buffer) THEN <<>>
    ELSE SubSeq(buffer, 1, Len(buffer) - skipped_before)

\* get_data 289-292: back.replace(image.src, image.filename), image by image
RECURSIVE RewriteImages(_, _)
RewriteImages(back, images) ==
    IF images = <<>> THEN back
    ELSE RewriteImages(Replace(back, Head(images).src, Filename(Head(images).src)),
                       Tail(images))

\* get_data 286-296: the back side of a note that is not a cloze note
ComposeBack(st, buffer) ==
    LET joined == Join(DropSkipped(buffer, st.skipped_before))
        images == IF st.note_data.images = <<>> THEN <<>> ELSE st.note_data.images[1]
        rewritten == RewriteImages(joined, images)
        no_empty_p == RemoveEmptyP(rewritten)
        no_empty_class == Replace(no_empty_p, <<"class", "=\"", "\"">>, <<>>)
    IN Replace(no_empty_class, <<"<", "p", " ", ">">>, StartTag("p"))

\* What get_data / extract_note hands back: an AnkiNote, None, or an exception.
NoNote == [front |-> <<>>, back |-> <<>>, tags |-> <<>>, source |-> <<>>, images |-> <<>>]
Returned(n) == [kind |-> "note", exc |-> None, note |-> n]
ReturnedNone == [kind |-> "none", exc |-> None, note |-> NoNote]
Raised(e) == [kind |-> "raise", exc |-> e, note |-> NoNote]

\* AnkiNote(**self.note_data) (299): `front` is required, tags and images
\* default to None, source is filled in by extract_notes_data.
AnkiNote(note_data, back) ==
    [front |-> note_data.front[1], back |-> back, tags |-> note_data.tags,
     source |-> <<>>, images |-> note_data.images]

\* get_data (272-304)
GetData(st) ==
    LET popped == PopTrailingNewlines(st.buffer)
        back == IF st.clozes_count > 0 THEN <<>>
                ELSE Some(ComposeBack(st, popped.buffer))
    IN IF st.clozes_count = 0 /\ popped.exc # None THEN Raised(popped.exc)
       ELSE IF st.note_data.front = <<>> THEN ReturnedNone
       ELSE Returned(AnkiNote(st.note_data, back))

\* Events of HTMLParser.feed: handle_starttag, handle_data, handle_endtag
StartEv(tag, attrs) == [e |-> "start", tag |-> tag, attrs |-> attrs, data |-> <<>>]
DataEv(data) == [e |-> "data", tag |-> "", attrs |-> <<>>, data |-> data]
EndEv(tag) == [e |-> "end", tag |-> tag, attrs |-> <<>>, data |-> <<>>]

\* One event of the feed, dispatched to its handler.
Handle(st, ev, fs) ==
    IF ev.e = "start" THEN HandleStartTag(st, ev.tag, ev.attrs, fs)
    ELSE IF ev.e = "data" THEN HandleData(st, ev.data)
    ELSE HandleEndTag(st, ev.tag)

\* parser.feed(html) (319): the events in order, until a handler raises
RECURSIVE Feed(_, _, _)
Feed(st, events, fs) ==
    IF events = <<>> \/ st.exc # None THEN st
    ELSE Feed(Handle(st, Head(events), fs), Tail(events), fs)

\* extract_note (306-321)
ExtractNote(events, fs) ==
    LET st == Feed(NewParser, events, fs)
    IN IF st.exc # None THEN Raised(st.exc) ELSE GetData(st)

----------------------------------------------------------------------------
(* extract_note on one fragment, event by event                             *)

\* Bound: the number of items of a fragment (front and back together).
MaxItems == 3

\* The files under base_dir that can be read, with their bytes.
Files == (<<"i", ".", "png">> :> "bytes1")

\* What the <ul class="toggle"> node of an export wraps a toggle in (47-56).
Wrapper ==
    <<StartEv("ul", <<Attr("id", <<"g1">>), Attr("class", <<"toggle">>)>>),
      StartEv("li", <<>>),
      StartEv("details", <<Attr("open", <<>>)>>)>>
Closers == <<EndEv("details"), EndEv("li"), EndEv("ul")>>

\* Fragment shapes: the export's toggle; a summary with no wrapper around it;
\* a toggle list without summary; a fragment cut off inside the summary.
Shapes == {"toggle", "bare", "nosummary", "unclosed"}

FrontItems == {"text", "tags", "code", "codeattr", "codelatex"}
BackItems == {"para", "tagpara", "nl", "code", "img", "img_missing"}

\* The events of one item.
ItemEvents(item) ==
    CASE item = "text" -> <<DataEv(<<"Q">>)>>
      [] item = "tags" -> <<DataEv(<<"#", "a", " ", "#", "b">>)>>
      [] item = "code" ->
            <<StartEv("code", <<>>), DataEv(<<"x">>), EndEv("code")>>
      [] item = "codeattr" ->
            <<StartEv("code", <<Attr("class", <<"c">>)>>), DataEv(<<"y">>),
              EndEv("code")>>
      [] item = "codelatex" ->
            <<StartEv("code", <<>>),
              StartEv("span", <<Attr("class", INLINE_LATEX_CLASS)>>),
              StartEv("annotation", <<>>), DataEv(<<"#", "z">>), EndEv("annotation"),
              EndEv("span"), EndEv("code")>>
      [] item = "para" -> <<StartEv("p", <<>>), DataEv(<<"A">>), EndEv("p")>>
      [] item = "tagpara" ->
            <<StartEv("p", <<Attr("id", <<"g2">>), Attr("class", <<>>)>>),
              DataEv(<<"#", "c">>), EndEv("p")>>
      [] item = "nl" -> <<DataEv(<<"\n">>)>>
      [] item = "img" ->
            <<StartEv("img", <<Attr("src", <<"i", ".", "png">>)>>), EndEv("img")>>
      [] item = "img_missing" ->
            <<StartEv("img", <<Attr("src", <<"m", ".", "png">>)>>), EndEv("img")>>

RECURSIVE ItemsEvents(_)
ItemsEvents(items) ==
    IF items = <<>> THEN <<>>
    ELSE ItemEvents(Head(items)) \o ItemsEvents(Tail(items))

\* The events HTMLParser delivers for a fragment.
Events(f) ==
    CASE f.shape = "toggle" ->
            Wrapper \o <<StartEv("summary", <<>>)>> \o ItemsEvents(f.front)
            \o <<EndEv("summary")>> \o ItemsEvents(f.back) \o Closers
      [] f.shape = "bare" ->
            <<StartEv("summary", <<>>)>> \o ItemsEvents(f.front)
            \o <<EndEv("summary")>> \o ItemsEvents(f.back)
      [] f.shape = "nosummary" ->
            Wrapper \o ItemsEvents(f.front) \o ItemsEvents(f.back) \o Closers
      [] f.shape = "unclosed" ->
            Wrapper \o <<StartEv("summary", <<>>)>> \o ItemsEvents(f.front)

SeqsUpTo(S, n) == UNION {[1..k -> S] : k \in 0..n}

Fragments ==
    {f \in [shape : Shapes, front : SeqsUpTo(FrontItems, MaxItems),
            back : SeqsUpTo(BackItems, MaxItems)] :
        /\ Len(f.front) + Len(f.back) <= MaxItems
        /\ f.shape = "unclosed" => f.back = <<>>}

Pending == [kind |-> "pending", exc |-> None, note |-> NoNote]

\* extract_note 318: a new parser for the fragment
ParserStart ==
    /\ fragment \in Fragments
    /\ feed = Events(fragment)
    /\ parser = NewParser
    /\ note = Pending

\* parser.feed delivers the next start tag to handle_starttag.
StartTagEvent ==
    /\ feed # <<>> /\ parser.exc = None
    /\ Head(feed).e = "start"
    /\ parser' = HandleStartTag(parser, Head(feed).tag, Head(feed).attrs, Files)
    /\ feed' = Tail(feed)
    /\ UNCHANGED <<fragment, note>>

\* parser.feed delivers the next text chunk to handle_data.
DataEvent ==
    /\ feed # <<>> /\ parser.exc = None
    /\ Head(feed).e = "data"
    /\ parser' = HandleData(parser, Head(feed).data)
    /\ feed' = Tail(feed)
    /\ UNCHANGED <<fragment, note>>

\* parser.feed delivers the next end tag to handle_endtag.
EndTagEvent ==
    /\ feed # <<>> /\ parser.exc = None
    /\ Head(feed).e = "end"
    /\ parser' = HandleEndTag(parser, Head(feed).tag)
    /\ feed' = Tail(feed)
    /\ UNCHANGED <<fragment, note>>

\* An exception of a handler leaves feed and extract_note (319).
FeedRaised ==
    /\ parser.exc # None /\ note.kind = "pending"
    /\ note' = Raised(parser.exc)
    /\ UNCHANGED <<fragment, feed, parser>>

\* extract_note 320-321: the feed is over, get_data composes the note.
GetDataCalled ==
    /\ feed = <<>> /\ parser.exc = None /\ note.kind = "pending"
    /\ note' = GetData(parser)
    /\ UNCHANGED <<fragment, feed, parser>>

ParserNext ==
    \/ StartTagEvent /\ UNCHANGED notParserVars
    \/ DataEvent /\ UNCHANGED notParserVars
    \/ EndTagEvent /\ UNCHANGED notParserVars
    \/ FeedRaised /\ UNCHANGED notParserVars
    \/ GetDataCalled /\ UNCHANGED notParserVars

\* Bound: the number of items of a fragment with markup.
MaxMarkupItems == 2

\* Fragment shapes with markup: the export's toggle; a toggle with an img tag
\* between the wrapper tags and the summary.
MarkupShapes == {"toggle", "imgfirst"}

\* Items of a front region: text, an inline equation, an image.
MarkupFrontItems == {"text", "inline_eq", "img"}

\* Items of a back region: paragraphs without and with attributes, a tag
\* that is not allow-listed inside a paragraph and around one, inline and
\* block equations, images (readable, unreadable, inside a tag that is not
\* allow-listed, inside an equation), nested toggles.
MarkupBackItems ==
    {"para", "styled", "underline", "table", "inline_eq", "block_eq", "img",
     "img_missing", "img_in_u", "img_in_eq", "nested", "nested_code"}

\* The events HTMLParser delivers for one item of a fragment with markup.
MarkupItemEvents(item) ==
    CASE item = "styled" ->
            <<StartEv("p", <<Attr("class", <<"c">>), Attr("id", <<"g2">>),
                             Attr("style", <<"s">>)>>),
              DataEv(<<"A">>), EndEv("p")>>
      [] item = "underline" ->
            <<StartEv("p", <<>>), DataEv(<<"pre">>), StartEv("u", <<>>),
              DataEv(<<"und">>), EndEv("u"), DataEv(<<"post">>), EndEv("p")>>
      [] item = "table" ->
            <<StartEv("table", <<>>), StartEv("p", <<>>), DataEv(<<"cell">>),
              EndEv("p"), EndEv("table")>>
      [] item = "inline_eq" ->
            <<StartEv("span", <<Attr("class", INLINE_LATEX_CLASS)>>),
              StartEv("math", <<>>), DataEv(<<"r">>),
              StartEv("annotation", <<Attr("encoding", <<"application/x-tex">>)>>),
              DataEv(<<"E">>), EndEv("annotation"), EndEv("math"),
              StartEv("span", <<Attr("class", <<"katex-html">>)>>), DataEv(<<"r">>),
              EndEv("span"), EndEv("span")>>
      [] item = "block_eq" ->
            <<StartEv("figure", <<Attr("class", BLOCK_LATEX_CLASS)>>),
              StartEv("math", <<>>), DataEv(<<"r">>),
              StartEv("annotation", <<Attr("encoding", <<"application/x-tex">>)>>),
              DataEv(<<"F">>), EndEv("annotation"), EndEv("math"),
              StartEv("span", <<Attr("class", <<"katex-html">>)>>), DataEv(<<"r">>),
              EndEv("span"), EndEv("figure")>>
      [] item = "img_in_u" ->
            <<StartEv("u", <<>>), StartEv("img", <<Attr("src", <<"i", ".", "png">>)>>),
              EndEv("img"), EndEv("u")>>
      [] item = "img_in_eq" ->
            <<StartEv("span", <<Attr("class", INLINE_LATEX_CLASS)>>),
              StartEv("img", <<Attr("src", <<"i", ".", "png">>)>>), EndEv("img"),
              StartEv("annotation", <<>>), DataEv(<<"E">>), EndEv("annotation"),
              EndEv("span")>>
      [] item = "nested" ->
            <<StartEv("ul", <<Attr("class", <<"toggle">>)>>), StartEv("li", <<>>),
              StartEv("details", <<>>), StartEv("summary", <<>>), DataEv(<<"Q2">>),
              EndEv("summary"), StartEv("p", <<>>), DataEv(<<"A2">>), EndEv("p"),
              EndEv("details"), EndEv("li"), EndEv("ul")>>
      [] item = "nested_code" ->
            <<StartEv("ul", <<Attr("class", <<"toggle">>)>>), StartEv("li", <<>>),
              StartEv("details", <<>>), StartEv("summary", <<>>),
              StartEv("code", <<>>), DataEv(<<"x">>), EndEv("code"),
              EndEv("summary"), EndEv("details"), EndEv("li"), EndEv("ul")>>
      [] OTHER -> ItemEvents(item)

RECURSIVE MarkupItemsEvents(_)
MarkupItemsEvents(items) ==
    IF items = <<>> THEN <<>>
    ELSE MarkupItemEvents(Head(items)) \o MarkupItemsEvents(Tail(items))

\* The events of a fragment with markup, in document order.
MarkupEvents(f) ==
    Wrapper
    \o (IF f.shape = "imgfirst" THEN ItemEvents("img") ELSE <<>>)
    \o <<StartEv("summary", <<>>)>> \o MarkupItemsEvents(f.front)
    \o <<EndEv("summary")>> \o MarkupItemsEvents(f.back)
    \o Closers

MarkupFragments ==
    {f \in [shape : MarkupShapes, front : SeqsUpTo(MarkupFrontItems, MaxMarkupItems),
            back : SeqsUpTo(MarkupBackItems, MaxMarkupItems)] :
        Len(f.front) + Len(f.back) <= MaxMarkupItems}

\* extract_note 318: a new parser for a fragment with markup
MarkupStart ==
    /\ fragment \in MarkupFragments
    /\ feed = MarkupEvents(fragment)
    /\ parser = NewParser
    /\ note = Pending

MarkupInit ==
    ExportIdle /\ SyncIdle /\ MarkupStart /\ DocumentIdle /\ PluginIdle /\ BlockIdIdle

SpecMarkup == MarkupInit /\ [][ParserNext]_vars

ParserInit == ExportIdle /\ SyncIdle /\ ParserStart /\ DocumentIdle /\ PluginIdle /\ BlockIdIdle

SpecParser == ParserInit /\ [][ParserNext]_vars

----------------------------------------------------------------------------
(* Properties of extract_note *)

HasItem(items, item) == \E i \in 1..Len(items) : items[i] = item

CountItem(items, item) == Cardinality({i \in 1..Len(items) : items[i] = item})

CountGlyph(text, glyph) == Cardinality({i \in 1..Len(text) : text[i] = glyph})

CodeItems == {"code", "codeattr", "codelatex"}

HasCode(items) == \E i \in 1..Len(items) : items[i] \in CodeItems

\* The fragment has a summary element that is opened and closed.
SummaryClosed == fragment.shape \in {"toggle", "bare"}

\* Every token of the buffer is empty or whitespace.
WhitespaceOnly(buffer) ==
    \A i \in 1..Len(buffer) : \A j \in 1..Len(buffer[i]) : buffer[i][j] \in Whitespace

\* The fragment makes the parser read an image file that cannot be read.
ReadsUnreadableImage == SummaryClosed /\ HasItem(fragment.back, "img_missing")

Malformed == ~SummaryClosed \/ WhitespaceOnly(parser.buffer)

\* C14: extract_note never raises for a fragment that references no
\* unreadable image: for a malformed fragment (no summary tag, unclosed
\* summary, empty or whitespace-only buffer at close) it returns None,
\* otherwise it returns a record.
C14_NeverRaises ==
    (note.kind # "pending" /\ ~ReadsUnreadableImage) =>
        /\ note.kind # "raise"
        /\ Malformed => note.kind = "none"
        /\ ~Malformed => note.kind = "note"

\* A fragment without summary ended extract_note with an IndexError.
C14_NoSummaryRaises ==
    /\ fragment.shape = "nosummary"
    /\ note.kind = "raise" /\ note.exc = "IndexError"

\* What does hold: a fragment cut off inside a summary that had content
\* yields None.
C14_UnclosedSummaryYieldsNone ==
    (note.kind # "pending" /\ fragment.shape = "unclosed" /\ parser.buffer # <<>>) =>
        note.kind = "none"

\* C17: for every fragment that yields a record, back is absent iff front
\* contains a cloze marker; a fragment with no code tags yields a back that is
\* present and a front without cloze markers; code tags that occur only in
\* the back region or carry attributes never produce an unmatched cloze marker.
C17_BackAbsentIffCloze ==
    note.kind = "note" =>
        LET front == note.note.front
            opens == CountGlyph(front, "{{c")
            closes == CountGlyph(front, "}}")
        IN /\ (note.note.back = <<>>) <=> (opens + closes > 0)
           /\ (~HasCode(fragment.front) /\ ~HasCode(fragment.back)) =>
                 (note.note.back # <<>> /\ opens + closes = 0)
           /\ (~HasItem(fragment.front, "code") /\ ~HasItem(fragment.front, "codelatex")) =>
                 opens = closes

\* A code tag with an attribute in the front left a cloze-close marker that
\* no cloze-open marker precedes, on a note that keeps its back.
C17_UnmatchedClozeClose ==
    /\ note.kind = "note"
    /\ CountGlyph(note.note.front, "{{c") = 0
    /\ CountGlyph(note.note.front, "}}") > 0
    /\ note.note.back # <<>>

\* The front a fragment's front items stand for when every code pair is a
\* cloze: the i-th pair opens with the marker numbered i; the first '#' chunk
\* is the tag list and is not part of the text.
RECURSIVE ExpectedFront(_, _, _)
ExpectedFront(items, clozes, tags_seen) ==
    IF items = <<>> THEN <<>>
    ELSE LET item == Head(items)
             inside == CASE item = "code" -> <<"x">>
                         [] item = "codeattr" -> <<"y">>
                         [] item = "codelatex" -> <<"\\(", "#", "z", "\\)">>
                         [] OTHER -> <<>>
         IN IF item \in CodeItems
            THEN ClozeOpen(clozes + 1) \o inside \o ClozeClose
                 \o ExpectedFront(Tail(items), clozes + 1, tags_seen)
            ELSE IF item = "tags"
            THEN (IF tags_seen THEN <<"#", "a", " ", "#", "b">> ELSE <<>>)
                 \o ExpectedFront(Tail(items), clozes, TRUE)
            ELSE <<"Q">> \o ExpectedFront(Tail(items), clozes, tags_seen)

\* C18: a fragment whose front region contains N matched code tag pairs
\* yields a front in which the i-th opening code tag is the cloze-open marker
\* numbered i and each closing code tag the cloze-close marker, with the
\* content of the pair (LaTeX delimiters included) kept between them, and back
\* is absent.
C18_CodePairsBecomeClozes ==
    (note.kind = "note" /\ HasCode(fragment.front)) =>
        /\ note.note.front = ExpectedFront(fragment.front, 0, FALSE)
        /\ note.note.back = <<>>

\* What does hold: the same for code tags that carry no attribute.
C18_PlainCodePairsBecomeClozes ==
    (note.kind = "note" /\ HasCode(fragment.front)
       /\ ~HasItem(fragment.front, "codeattr")) =>
        /\ note.note.front = ExpectedFront(fragment.front, 0, FALSE)
        /\ note.note.back = <<>>
        /\ CountGlyph(note.note.front, "{{c") =
              CountItem(fragment.front, "code") + CountItem(fragment.front, "codelatex")

\* Two plain code pairs, the second around LaTeX, became clozes 1 and 2.
C18_PlainWitness ==
    /\ note.kind = "note"
    /\ fragment.front = <<"code", "codelatex">>
    /\ note.note.front = <<"{{c", "1", "::", "x", "}}",
                           "{{c", "2", "::", "\\(", "#", "z", "\\)", "}}">>

\* The '#' chunks of the fragment in document order, by the item they are in.
HashChunks(f) ==
    SelectSeq(f.front, LAMBDA i : i = "tags") \o SelectSeq(f.back, LAMBDA i : i = "tagpara")

\* The tag list written in a '#' chunk: '#a #b' in the front item, '#c' in the
\* back item.
WrittenTags(item) ==
    IF item = "tags" THEN << <<"a">>, <<"b">> >> ELSE << <<"c">> >>

\* C19: the first captured data chunk that begins with '#' is consumed as the
\* tag list (split on '#', each non-empty trimmed remainder one tag, in order)
\* and is not emitted; a later '#' chunk of the fragment neither replaces nor
\* extends the tag list and is emitted as ordinary content, as is a '#' chunk
\* inside a LaTeX wrapper.
C19_FirstHashChunkIsTags ==
    (SummaryClosed /\ feed = <<>> /\ parser.exc = None) =>
        LET chunks == HashChunks(fragment)
            in_front == CountItem(fragment.front, "tags")
            in_back == CountItem(fragment.back, "tagpara")
        IN /\ chunks = <<>> => parser.note_data.tags = <<>>
           /\ chunks # <<>> => parser.note_data.tags = Some(WrittenTags(chunks[1]))
           /\ CountGlyph(parser.note_data.front[1], "#") =
                 2 * (IF in_front > 0 THEN in_front - 1 ELSE 0)
                 + CountItem(fragment.front, "codelatex")
           /\ CountGlyph(Join(parser.buffer), "#") =
                 (IF in_front > 0 \/ in_back = 0 THEN in_back ELSE in_back - 1)
           /\ note.kind = "note" => note.note.tags = parser.note_data.tags

\* A fragment with two '#' chunks in its front: the first became the tags,
\* the second is in the front text.
C19_Witness ==
    /\ note.kind = "note"
    /\ fragment.front = <<"tags", "tags">>
    /\ note.note.tags = Some(<< <<"a">>, <<"b">> >>)
    /\ note.note.front = <<"#", "a", " ", "#", "b">>

\* C20: tags are taken only from the front region: a '#' chunk after the
\* summary end tag is never recorded as tags, also when the front region
\* contained no tag run.
C20_TagsOnlyFromFront ==
    (note.kind = "note" /\ ~HasItem(fragment.front, "tags")) => note.note.tags = <<>>

\* C20 (as the code has it): the tag list is the first captured '#' chunk of
\* the fragment wherever it stands: a '#' chunk of the back region is
\* recorded as the tags, and left out of the back, exactly when no '#' chunk
\* of the front region came before it.
C20_TagsFromFirstChunkAnywhere ==
    note.kind = "note" =>
        /\ HasItem(fragment.front, "tags") =>
              /\ note.note.tags = Some(WrittenTags("tags"))
              /\ (fragment.shape = "toggle" /\ note.note.back # <<>>) =>
                    CountGlyph(note.note.back[1], "#") = CountItem(fragment.back, "tagpara")
        /\ (~HasItem(fragment.front, "tags") /\ HasItem(fragment.back, "tagpara")) =>
              /\ note.note.tags = Some(WrittenTags("tagpara"))
              /\ (fragment.shape = "toggle" /\ note.note.back # <<>>) =>
                    CountGlyph(note.note.back[1], "#") =
                       CountItem(fragment.back, "tagpara") - 1
        /\ (~HasItem(fragment.front, "tags") /\ ~HasItem(fragment.back, "tagpara")) =>
              note.note.tags = <<>>

\* A note whose front had no '#' chunk took its tags from the back, and the
\* back does not show them.
C20_Witness ==
    /\ note.kind = "note"
    /\ fragment.shape = "toggle"
    /\ ~HasItem(fragment.front, "tags")
    /\ fragment.back = <<"para", "tagpara">>
    /\ note.note.tags = Some(<< <<"c">> >>)
    /\ note.note.back = Some(<<"<", "p", ">", "A", "</", "p", ">">>)

\* The storage name of the reference 'i.png': its alphanumeric characters,
\* '_', and the base name of the file.
StorageName == <<"i", "png", "_", "i", ".", "png">>

\* The back text the paragraphs and readable images of a back region stand
\* for, with every image reference replaced by the storage name.
RECURSIVE ExpectedBackText(_)
ExpectedBackText(items) ==
    IF items = <<>> THEN <<>>
    ELSE (IF Head(items) = "img"
          THEN <<"<", "img", " ", "src", "=\"">> \o StorageName
               \o <<"\"", ">", "</", "img", ">">>
          ELSE <<"<", "p", ">", "A", "</", "p", ">">>)
         \o ExpectedBackText(Tail(items))

\* The back region holds paragraphs and readable images only.
ParagraphsAndImages(f) ==
    /\ f.shape = "toggle"
    /\ \A i \in 1..Len(f.back) : f.back[i] \in {"para", "img"}

\* C21: for every image registered from an img tag in the back region, the
\* final back text contains the image's storage name in place of every
\* occurrence of its original reference, the storage name is the alphanumeric
\* characters of the reference followed by '_' and the file's base name, and
\* the ImageRef's bytes equal the file's contents.
C21_ImageReferencesRewritten ==
    (note.kind = "note" /\ note.note.back # <<>> /\ ParagraphsAndImages(fragment)
       /\ HasItem(fragment.back, "img")) =>
        LET images == note.note.images[1]
        IN /\ Len(images) = CountItem(fragment.back, "img")
           /\ \A k \in 1..Len(images) :
                 /\ images[k].filename = StorageName
                 /\ images[k].data = Files[<<"i", ".", "png">>]
           /\ note.note.back = Some(ExpectedBackText(fragment.back))

\* Two img tags with the same reference: the second replace pass rewrote the
\* reference inside the storage name the first pass had written.
C21_RewrittenTwice ==
    /\ note.kind = "note"
    /\ fragment.shape = "toggle" /\ fragment.back = <<"img", "img">>
    /\ note.note.images[1][1].filename = StorageName
    /\ note.note.back =
          Some(<<"<", "img", " ", "src", "=\"", "i", "png", "_", "i", "png", "_", "i", ".", "png",
                 "\"", ">", "</", "img", ">",
                 "<", "img", " ", "src", "=\"", "i", "png", "_", "i", "png", "_", "i", ".", "png",
                 "\"", ">", "</", "img", ">">>)

\* What does hold: the same for a back region with one img tag.
C21_SingleImageRewritten ==
    (note.kind = "note" /\ note.note.back # <<>> /\ ParagraphsAndImages(fragment)
       /\ CountItem(fragment.back, "img") = 1) =>
        /\ Len(note.note.images[1]) = 1
        /\ note.note.images[1][1].filename = StorageName
        /\ note.note.images[1][1].data = Files[<<"i", ".", "png">>]
        /\ note.note.back = Some(ExpectedBackText(fragment.back))

\* The tokens of the back buffer without its trailing whitespace-only tokens
\* and then without its last k tokens (none for k = 0).
RECURSIVE BackTokens(_, _)
BackTokens(buffer, k) ==
    IF buffer # <<>> /\ WhitespaceOnly(<<buffer[Len(buffer)]>>)
    THEN BackTokens(SubSeq(buffer, 1, Len(buffer) - 1), k)
    ELSE IF k >= Len(buffer) THEN <<>>
    ELSE SubSeq(buffer, 1, Len(buffer) - k)

\* The back region holds paragraphs, line breaks and code only: nothing that
\* get_data rewrites after the tokens are joined.
PlainBack(f) ==
    \A i \in 1..Len(f.back) : f.back[i] \in {"para", "nl", "code"}

\* C28: for a non-cloze fragment, back is the concatenation of the back
\* buffer after removing its trailing whitespace-only tokens and then exactly
\* its last skippedBeforeCount tokens, for every skippedBeforeCount >= 0
\* (with 0 wrapper tags nothing is dropped).
C28_BackDropsSkippedBefore ==
    (note.kind = "note" /\ parser.clozes_count = 0 /\ PlainBack(fragment)) =>
        note.note.back = Some(Join(BackTokens(parser.buffer, parser.skipped_before)))

\* A summary with no wrapper tag around it: skipped_before is 0 and the
\* whole back was dropped.
C28_UnwrappedBackLost ==
    /\ note.kind = "note"
    /\ fragment.shape = "bare" /\ fragment.back = <<"para">>
    /\ parser.skipped_before = 0
    /\ parser.buffer = << <<"<", "p", ">">>, <<"A">>, <<"</", "p", ">">> >>
    /\ note.note.back = Some(<<>>)

\* What does hold: the same for the export's toggle, wrapped in ul, li and
\* details, where the dropped tokens are the three closing wrapper tags.
C28_WrappedBackDropsClosers ==
    (note.kind = "note" /\ parser.clozes_count = 0 /\ PlainBack(fragment)
       /\ fragment.shape = "toggle") =>
        /\ parser.skipped_before = 3
        /\ SubSeq(parser.buffer, Len(parser.buffer) - 2, Len(parser.buffer)) =
              <<EndTag("details"), EndTag("li"), EndTag("ul")>>
        /\ note.note.back = Some(Join(BackTokens(parser.buffer, parser.skipped_before)))

\* The end of the attribute value that starts at position i of text: the
\* position of the next closing quote.
RECURSIVE ValueEnd(_, _)
ValueEnd(text, i) ==
    IF i > Len(text) \/ text[i] = "\"" THEN i ELSE ValueEnd(text, i + 1)

\* The values of the src attributes written in text.
SrcValues(text) ==
    {SubSeq(text, i + 2, ValueEnd(text, i + 2) - 1) :
        i \in {k \in 1..(Len(text) - 1) : text[k] = "src" /\ text[k + 1] = "=\""}}

\* The storage names of the registered images of a note record.
StorageNames(n) ==
    IF n.images = <<>> THEN {}
    ELSE {n.images[1][k].filename : k \in 1..Len(n.images[1])}

\* C40: after back composition every image reference in the final back text
\* is the storage name of a registered image: each reference was rewritten
\* exactly once, also when the same source is registered more than once.
C40_ReferencesAreStorageNames ==
    (note.kind = "note" /\ note.note.back # <<>>) =>
        SrcValues(note.note.back[1]) \subseteq StorageNames(note.note)

\* The same image twice in the back region: both registered images have the
\* storage name 'ipng_i.png', and the back refers to 'ipng_ipng_i.png', the
\* name of no registered image.
C40_ReferenceToNoImage ==
    /\ note.kind = "note"
    /\ fragment.back = <<"img", "img">>
    /\ note.note.back # <<>>
    /\ StorageNames(note.note) = {StorageName}
    /\ SrcValues(note.note.back[1]) =
          {<<"i", "png", "_", "i", "png", "_", "i", ".", "png">>}

\* What does hold: when at most one image is registered, every reference of
\* the back is the storage name of the registered image.
C40_SingleImageReferenceIsStorageName ==
    (note.kind = "note" /\ note.note.back # <<>>
       /\ (note.note.images = <<>> \/ Len(note.note.images[1]) <= 1)) =>
        SrcValues(note.note.back[1]) \subseteq StorageNames(note.note)


----------------------------------------------------------------------------
(* Properties of the parser on fragments with markup (SpecMarkup)           *)

\* The fragment has no nested toggle.
NoNestedToggle ==
    /\ ~HasItem(fragment.back, "nested")
    /\ ~HasItem(fragment.back, "nested_code")

\* Everything the parser has emitted for the fragment: the front text and the
\* tokens of the buffer.
EmittedText ==
    (IF parser.note_data.front = <<>> THEN <<>> ELSE parser.note_data.front[1])
    \o Join(parser.buffer)

\* The equation wrappers of the fragment with the inline class, with the
\* block class.
InlineEquations ==
    CountItem(fragment.front, "inline_eq") + CountItem(fragment.back, "inline_eq")
    + CountItem(fragment.back, "img_in_eq")

BlockEquations == CountItem(fragment.back, "block_eq")

\* In text, every glyph open is followed by the glyph body and the glyph
\* close.
Delimited(text, open, body, close) ==
    \A i \in 1..Len(text) :
        text[i] = open =>
            /\ i + 2 <= Len(text)
            /\ text[i + 1] = body
            /\ text[i + 2] = close

\* C22: a span or figure start tag with the inline-equation class is emitted
\* as the inline opening delimiter, one with the block-equation class as the
\* block opening delimiter; between it and the closing delimiter the output
\* holds exactly the text of the nested annotation element, and no other
\* start tag, end tag or text of the equation's rendering is emitted.
C22_EquationIsDelimitedAnnotation ==
    (feed = <<>> /\ parser.exc = None /\ NoNestedToggle) =>
        /\ CountGlyph(EmittedText, "\\(") = InlineEquations
        /\ CountGlyph(EmittedText, "\\)") = InlineEquations
        /\ CountGlyph(EmittedText, "\\[") = BlockEquations
        /\ CountGlyph(EmittedText, "\\]") = BlockEquations
        /\ Delimited(EmittedText, "\\(", "E", "\\)")
        /\ Delimited(EmittedText, "\\[", "F", "\\]")
        /\ CountGlyph(EmittedText, "E") = InlineEquations
        /\ CountGlyph(EmittedText, "F") = BlockEquations
        /\ \A glyph \in {"r", "math", "annotation", "span", "figure", "katex-html",
                         "encoding"} \cup {INLINE_LATEX_CLASS[1], BLOCK_LATEX_CLASS[1]} :
              CountGlyph(EmittedText, glyph) = 0

\* An inline equation in the front and a block equation in the back: each is
\* its delimiters around its annotation text.
C22_Witness ==
    /\ feed = <<>>
    /\ fragment.shape = "toggle"
    /\ fragment.front = <<"inline_eq">> /\ fragment.back = <<"block_eq">>
    /\ parser.note_data.front = Some(<<"\\(", "E", "\\)">>)
    /\ SubSeq(parser.buffer, 1, 3) = << <<"\\[">>, <<"F">>, <<"\\]">> >>
    /\ note.kind = "note"
    /\ note.note.back = Some(<<"\\[", "F", "\\]">>)

\* The text a back region of paragraphs, underlined text and tables stands
\* for when a tag outside the allow-list hides itself and its content: the
\* paragraph around the underlined word keeps the text on both sides of it,
\* the table leaves nothing.
RECURSIVE ExpectedMarkup(_)
ExpectedMarkup(items) ==
    IF items = <<>> THEN <<>>
    ELSE (CASE Head(items) = "para" -> <<"<", "p", ">", "A", "</", "p", ">">>
            [] Head(items) = "underline" ->
                  <<"<", "p", ">", "pre", "post", "</", "p", ">">>
            [] Head(items) = "table" -> <<>>)
         \o ExpectedMarkup(Tail(items))

\* The end tags of the tags around the summary.
ClosersText == <<"</", "details", ">", "</", "li", ">", "</", "ul", ">">>

\* The fragment is the export's toggle with a plain text front and a back of
\* the given items only.
BackOf(items) ==
    /\ fragment.shape = "toggle"
    /\ \A i \in 1..Len(fragment.front) : fragment.front[i] = "text"
    /\ \A i \in 1..Len(fragment.back) : fragment.back[i] \in items

\* C24: a start tag that is not allow-listed emits nothing and suppresses
\* the text until its matching end tag; the text and the end tags of the
\* enclosing allow-listed elements after that end tag are emitted again.
C24_EmissionResumesAfterEndTag ==
    (feed = <<>> /\ BackOf({"para", "underline"})) =>
        Join(parser.buffer) = ExpectedMarkup(fragment.back) \o ClosersText

\* '<p>pre<u>und</u>post</p>': after </u> the text 'post', the end tag of the
\* paragraph and the end tags of the wrapper were not emitted, and get_data
\* dropped the two tokens that were.
C24_TextAfterEndTagLost ==
    /\ note.kind = "note"
    /\ fragment.shape = "toggle"
    /\ fragment.front = <<"text">> /\ fragment.back = <<"underline">>
    /\ parser.buffer = << <<"<", "p", ">">>, <<"pre">> >>
    /\ ~parser.capture_tag
    /\ note.note.back = Some(<<>>)

\* C25: inside an element that is not allow-listed everything is dropped,
\* allow-listed descendants too: a paragraph inside a table leaves neither
\* its tags nor its text.
C25_DescendantsOfSuppressedDropped ==
    (feed = <<>> /\ BackOf({"para", "table"})) =>
        Join(parser.buffer) = ExpectedMarkup(fragment.back) \o ClosersText

\* '<table><p>cell</p></table>': the paragraph inside the table was emitted
\* with its text, and so was the end tag of the table.
C25_ParagraphInTableEmitted ==
    /\ note.kind = "note"
    /\ fragment.shape = "toggle"
    /\ fragment.front = <<"text">> /\ fragment.back = <<"table">>
    /\ SubSeq(parser.buffer, 1, 4) =
          << <<"<", "p", ">">>, <<"cell">>, <<"</", "p", ">">>, <<"</", "table", ">">> >>
    /\ note.note.back = Some(<<"<", "p", ">", "cell", "</", "p", ">", "</", "table", ">">>)

\* The step is parser.feed delivering the start tag at the head of the feed.
StartTagDelivered ==
    /\ feed # <<>> /\ Head(feed).e = "start"
    /\ feed' = Tail(feed)

\* The start tag opens an equation wrapper.
IsEquationWrapper(ev) ==
    /\ ev.tag \in {"span", "figure"}
    /\ \E i \in 1..Len(ev.attrs) :
          /\ ev.attrs[i].name = "class"
          /\ ev.attrs[i].value \in {INLINE_LATEX_CLASS, BLOCK_LATEX_CLASS}

\* The attributes of a start tag as written out: ' name="value"' for each in
\* source order, the attribute id left out.
RECURSIVE AttrPairs(_)
AttrPairs(attrs) ==
    IF attrs = <<>> THEN <<>>
    ELSE (IF Head(attrs).name = "id" THEN <<>>
          ELSE <<" ", Head(attrs).name, "=\"">> \o Head(attrs).value \o <<"\"">>)
         \o AttrPairs(Tail(attrs))

WrittenStartTag(ev) == <<"<", ev.tag>> \o AttrPairs(ev.attrs) \o <<">">>

\* C26: after the summary start tag and outside an equation, an allow-listed
\* start tag that opens no equation wrapper is emitted with its attributes in
\* source order as name="value" pairs, without the attribute id; the summary
\* start tag itself is never emitted.
C26_AllowedStartTagEmitted ==
    [][StartTagDelivered =>
         LET ev == Head(feed)
         IN /\ ev.tag = "summary" => parser'.buffer = parser.buffer
            /\ ( /\ ev.tag # "summary" /\ ev.tag \in ALLOWED_TAGS
                 /\ parser.collecting_started /\ ~parser.in_latex
                 /\ ~IsEquationWrapper(ev) ) =>
                  parser'.buffer = Append(parser.buffer, WrittenStartTag(ev))]_vars

\* '<p class="c" id="g2" style="s">' has just been delivered: the token
\* written for it has class and style, in that order, and no id.
C26_Witness ==
    /\ fragment.back = <<"styled">>
    /\ feed # <<>> /\ Head(feed) = DataEv(<<"A">>)
    /\ parser.buffer =
          << <<"<", "p", " ", "class", "=\"", "c", "\"", " ", "style", "=\"", "s", "\"", ">">> >>

\* note_data.get('images', []) of a parser state
ImagesOf(st) == IF st.note_data.images = <<>> THEN <<>> ELSE st.note_data.images[1]

\* The step is parser.feed delivering an img start tag, handled without an
\* exception.
ImgDelivered ==
    /\ StartTagDelivered
    /\ Head(feed).tag = "img"
    /\ parser'.exc = None

\* C27: every img start tag after the summary start tag registers exactly
\* one image, whether or not emission is suppressed at that point (inside a
\* wrapper that is not allow-listed, inside an equation wrapper); an img
\* start tag before the summary start tag registers none.
C27_EveryImgRegistered ==
    [][ImgDelivered =>
          Len(ImagesOf(parser')) =
             Len(ImagesOf(parser)) + (IF parser.collecting_started THEN 1 ELSE 0)]_vars

\* C27 (as the code has it): an img start tag after the summary start tag
\* and outside an equation wrapper registers exactly one image, appended
\* with the tag's src, also when emission is suppressed by a wrapper that is
\* not allow-listed; an img start tag inside an equation wrapper or before
\* the summary start tag registers none.
C27_ImgRegisteredOutsideEquation ==
    [][ImgDelivered =>
          IF parser.collecting_started /\ ~parser.in_latex
          THEN /\ Len(ImagesOf(parser')) = Len(ImagesOf(parser)) + 1
               /\ SubSeq(ImagesOf(parser'), 1, Len(ImagesOf(parser))) = ImagesOf(parser)
               /\ ImagesOf(parser')[Len(ImagesOf(parser'))].src =
                     GetAttrByName("src", Head(feed).attrs)[1]
          ELSE ImagesOf(parser') = ImagesOf(parser)]_vars

\* An img inside <u> and an img inside an equation wrapper: the feed is over
\* and one image is registered, the one inside <u>.
C27_Witness ==
    /\ feed = <<>> /\ parser.exc = None
    /\ fragment.shape = "toggle"
    /\ fragment.back = <<"img_in_u", "img_in_eq">>
    /\ Len(ImagesOf(parser)) = 1
    /\ ImagesOf(parser)[1].src = <<"i", ".", "png">>
    /\ parser.buffer[1] = <<"<", "img", " ", "src", "=\"", "i", ".", "png", "\"", ">">>

\* A step leaves the front, the cloze count and the tokens of the buffer as
\* they are (the buffer may grow at its end).
FrontKept ==
    /\ parser'.note_data.front = parser.note_data.front
    /\ parser'.clozes_count = parser.clozes_count
    /\ Len(parser'.buffer) >= Len(parser.buffer)
    /\ SubSeq(parser'.buffer, 1, Len(parser.buffer)) = parser.buffer

\* C30: the front is assigned once, at the first summary end tag; no later
\* event of the fragment, in particular a second summary start and end tag
\* in the back region (a nested toggle), changes the front, clears the back
\* buffer or changes the cloze count.
C30_FrontAssignedOnce ==
    [][parser.note_data.front # <<>> => FrontKept]_vars

\* A toggle with the front 'Q' and a nested toggle whose summary holds code:
\* the front of the note is the nested toggle's start tags and summary, the
\* note has become a cloze note and has no back.
C30_NestedSummaryOverwrites ==
    /\ note.kind = "note"
    /\ fragment.shape = "toggle"
    /\ fragment.front = <<"text">> /\ fragment.back = <<"nested_code">>
    /\ parser.clozes_count = 1
    /\ note.note.front =
          <<"<", "ul", " ", "class", "=\"", "toggle", "\"", ">", "<", "li", ">",
            "{{c", "1", "::", "x", "}}">>
    /\ note.note.back = <<>>

\* What does hold: the same for a fragment with one summary element.
C30_SingleSummaryFrontKept ==
    [][(NoNestedToggle /\ parser.note_data.front # <<>>) => FrontKept]_vars

----------------------------------------------------------------------------
(* extract_note on fragments whose equation wrappers are not well formed    *)
(* (SpecEquation)                                                           *)

\* Bound: the number of items of the back region of such a fragment.
MaxEquationItems == 2

\* Items of the back region: a paragraph; inline and block equations as the
\* export renders them; equation wrappers without an annotation element; an
\* inline equation whose rendering has a start tag that is never closed; an
\* image that cannot be read.
EquationBackItems ==
    {"para", "inline_eq", "block_eq", "eq_no_annotation", "block_eq_no_annotation",
     "eq_unclosed", "img_missing"}

\* The events HTMLParser delivers for one such item.
EquationItemEvents(item) ==
    CASE item = "eq_no_annotation" ->
            <<StartEv("span", <<Attr("class", INLINE_LATEX_CLASS)>>),
              StartEv("span", <<Attr("class", <<"katex-html">>)>>), DataEv(<<"r">>),
              EndEv("span"), EndEv("span")>>
      [] item = "block_eq_no_annotation" ->
            <<StartEv("figure", <<Attr("class", BLOCK_LATEX_CLASS)>>),
              StartEv("span", <<Attr("class", <<"katex-html">>)>>), DataEv(<<"r">>),
              EndEv("span"), EndEv("figure")>>
      [] item = "eq_unclosed" ->
            <<StartEv("span", <<Attr("class", INLINE_LATEX_CLASS)>>),
              StartEv("br", <<>>),
              StartEv("annotation", <<>>), DataEv(<<"E">>), EndEv("annotation"),
              EndEv("span")>>
      [] OTHER -> MarkupItemEvents(item)

RECURSIVE EquationItemsEvents(_)
EquationItemsEvents(items) ==
    IF items = <<>> THEN <<>>
    ELSE EquationItemEvents(Head(items)) \o EquationItemsEvents(Tail(items))

\* The events of the fragment: the toggle with the front 'Q' and the items
\* of the back region.
EquationEvents(f) ==
    Wrapper
    \o <<StartEv("summary", <<>>)>> \o ItemsEvents(f.front) \o <<EndEv("summary")>>
    \o EquationItemsEvents(f.back)
    \o Closers

EquationFragments ==
    [shape : {"toggle"}, front : {<<"text">>},
     back : SeqsUpTo(EquationBackItems, MaxEquationItems)]

\* extract_note 318: a new parser for such a fragment
EquationStart ==
    /\ fragment \in EquationFragments
    /\ feed = EquationEvents(fragment)
    /\ parser = NewParser
    /\ note = Pending

EquationInit ==
    ExportIdle /\ SyncIdle /\ EquationStart /\ DocumentIdle /\ PluginIdle /\ BlockIdIdle

SpecEquation == EquationInit /\ [][ParserNext]_vars

\* The feed stands between two items of the back region, or after the last.
BetweenBackItems ==
    \E k \in 0..Len(fragment.back) :
        feed = EquationItemsEvents(SubSeq(fragment.back, k + 1, Len(fragment.back)))
               \o Closers

\* In text every glyph open is followed by a glyph close with no delimiter
\* in between.
ClosedAfterOpen(text, open, close) ==
    \A i \in 1..Len(text) :
        text[i] = open =>
            \E j \in (i + 1)..Len(text) :
                /\ text[j] = close
                /\ \A k \in (i + 1)..(j - 1) :
                      text[k] \notin {"\\(", "\\)", "\\[", "\\]"}

\* After the end of an equation wrapper the parser is out of LaTeX mode, and
\* at the end of the feed every opening delimiter of the output has its
\* closing delimiter and every paragraph of the back region was emitted.
BalancedAndLeft ==
    /\ (BetweenBackItems /\ parser.exc = None) => ~parser.in_latex
    /\ (feed = <<>> /\ parser.exc = None) =>
          /\ ClosedAfterOpen(EmittedText, "\\(", "\\)")
          /\ ClosedAfterOpen(EmittedText, "\\[", "\\]")
          /\ CountGlyph(EmittedText, "A") = CountItem(fragment.back, "para")

\* C39: LaTeX delimiters in the output are balanced and LaTeX mode is always
\* left: every emitted opening delimiter is followed by the closing delimiter
\* of its kind, also for a wrapper without annotation element or with
\* unclosed nested tags, and after the wrapper's end tag the parser is out
\* of LaTeX mode and captures the following content.
C39_DelimitersBalancedModeLeft == BalancedAndLeft

\* A wrapper without annotation element before a paragraph: the back is the
\* opening delimiter, never closed, and the paragraph.
C39_OpeningNeverClosed ==
    /\ fragment.back = <<"eq_no_annotation", "para">>
    /\ note.kind = "note"
    /\ note.note.back = Some(<<"\\(", "<", "p", ">", "A", "</", "p", ">">>)

\* A wrapper with a start tag that is never closed before a paragraph: the
\* wrapper's end tag did not end LaTeX mode, and the closing delimiter and
\* the paragraph are missing from the back.
C39_LatexModeKept ==
    /\ fragment.back = <<"eq_unclosed", "para">>
    /\ note.kind = "note"
    /\ note.note.back = Some(<<"\\(", "E">>)

\* The equation wrappers of the fragment are as the export renders them.
RenderedEquationsOnly ==
    \A i \in 1..Len(fragment.back) :
        fragment.back[i] \notin
            {"eq_no_annotation", "block_eq_no_annotation", "eq_unclosed"}

\* What does hold: for wrappers with one annotation element and closed
\* nested tags the delimiters are balanced and LaTeX mode is left.
C39_RenderedEquationsBalanced == RenderedEquationsOnly => BalancedAndLeft


----------------------------------------------------------------------------
(* extract_notes_data on one HTML file, fragment by fragment                *)

\* Bound: the number of <ul class="toggle"> nodes of a document.
MaxFragments == 3

\* The fragments documents are made of: a toggle with a back, a cloze toggle,
\* a toggle with a tag line, a toggle list without summary, a fragment cut
\* off inside its summary, a toggle with an image that cannot be read.
DocFragments ==
    {[shape |-> "toggle", front |-> <<"text">>, back |-> <<"para">>],
     [shape |-> "toggle", front |-> <<"code">>, back |-> <<>>],
     [shape |-> "toggle", front |-> <<"text">>, back |-> <<"tagpara">>],
     [shape |-> "nosummary", front |-> <<"text">>, back |-> <<>>],
     [shape |-> "unclosed", front |-> <<"text">>, back |-> <<>>],
     [shape |-> "toggle", front |-> <<"text">>, back |-> <<"img_missing">>]}

Documents == SeqsUpTo(DocFragments, MaxFragments)

\* note.source (344-345), for the article id and namespace of the file
SourceLink ==
    <<"<", "a", " ", "href", "=\"", "https://notion.so/", "ns", "/", "article1", "\"", ">",
      "https://notion.so/", "ns", "/", "article1", "</", "a", ">">>

\* extract_notes_data 334-338: the file is read, the loop is about to start.
DocumentStart ==
    /\ document \in Documents
    /\ node = 1
    /\ notes = <<>>
    /\ extraction = "running"

AtNode ==
    /\ extraction = "running"
    /\ node <= Len(document)

\* 339-346: extract_note returned a note; it gets its source and is appended.
NoteExtracted ==
    /\ AtNode
    /\ LET n == ExtractNote(Events(document[node]), Files)
       IN /\ n.kind = "note"
          /\ notes' = Append(notes, [n.note EXCEPT !.source = Some(SourceLink)])
    /\ node' = node + 1
    /\ UNCHANGED <<document, extraction>>

\* 339-343: extract_note returned None; the fragment is skipped.
NoteSkipped ==
    /\ AtNode
    /\ ExtractNote(Events(document[node]), Files).kind = "none"
    /\ node' = node + 1
    /\ UNCHANGED <<document, notes, extraction>>

\* 340-342: extract_note raised; nothing in extract_notes_data catches it.
ExtractionRaised ==
    /\ AtNode
    /\ LET n == ExtractNote(Events(document[node]), Files)
       IN /\ n.kind = "raise"
          /\ extraction' = n.exc
    /\ UNCHANGED <<document, node, notes>>

\* 347: return notes
NotesReturned ==
    /\ extraction = "running"
    /\ node > Len(document)
    /\ extraction' = "returned"
    /\ UNCHANGED <<document, node, notes>>

DocumentNext ==
    \/ NoteExtracted /\ UNCHANGED notDocumentVars
    \/ NoteSkipped /\ UNCHANGED notDocumentVars
    \/ ExtractionRaised /\ UNCHANGED notDocumentVars
    \/ NotesReturned /\ UNCHANGED notDocumentVars

DocumentInit == ExportIdle /\ SyncIdle /\ ParserIdle /\ DocumentStart /\ PluginIdle /\ BlockIdIdle

SpecDocument == DocumentInit /\ [][DocumentNext]_vars

\* A fragment with a summary element that is opened and closed.
WellFormed(f) == f.shape \in {"toggle", "bare"}

HasUnreadableImage(f) == HasItem(f.back, "img_missing")

\* The records of the well-formed fragments of a document, in document order.
RECURSIVE ExpectedNotes(_)
ExpectedNotes(doc) ==
    IF doc = <<>> THEN <<>>
    ELSE (IF WellFormed(Head(doc))
          THEN <<[ExtractNote(Events(Head(doc)), Files).note
                     EXCEPT !.source = Some(SourceLink)]>>
          ELSE <<>>)
         \o ExpectedNotes(Tail(doc))

\* C15: extract_notes_data skips malformed fragments and never aborts the
\* document because of them: for a document with k toggle fragments of which
\* m are malformed it returns exactly the records of the k - m well-formed
\* fragments, in document order.
C15_MalformedSkipped ==
    (\A i \in 1..Len(document) : ~HasUnreadableImage(document[i])) =>
        /\ extraction \in {"running", "returned"}
        /\ extraction = "returned" => notes = ExpectedNotes(document)

\* A document whose second fragment has no summary was aborted with an
\* IndexError after the first fragment's note had been extracted.
C15_DocumentAborted ==
    /\ extraction = "IndexError"
    /\ Len(notes) = 1 /\ node = 2
    /\ document[2].shape = "nosummary"
    /\ \A i \in 1..Len(document) : ~HasUnreadableImage(document[i])

\* What does hold: when the only malformed fragments are ones cut off inside
\* their summary, they are skipped and the others are returned in order.
C15_UnclosedSkipped ==
    (\A i \in 1..Len(document) :
        ~HasUnreadableImage(document[i]) /\ document[i].shape # "nosummary") =>
        /\ extraction \in {"running", "returned"}
        /\ extraction = "returned" => notes = ExpectedNotes(document)

----------------------------------------------------------------------------
(* NotesManager: the target deck of the Anki collection                     *)

\* A record of the logger `logger`; values are the configuration values its
\* rendered text contains.
LogRecord(logger, msg) == [logger |-> logger, msg |-> msg, values |-> {}]

MODEL_NAME == "notion-anki-sync"
CLOZE_MODEL_NAME == "notion-anki-sync-cloze"

\* find_note's result when no note matches (None)
NoNoteId == 0

\* `if not note.back`: the cloze model for a note without back, else the
\* question-answer model.
PickModel(n) ==
    IF n.back = <<>> \/ n.back = Some(<<>>) THEN CLOZE_MODEL_NAME ELSE MODEL_NAME

\* model['flds']: the cloze model has no Back field.
ModelFields(mid) ==
    IF mid = CLOZE_MODEL_NAME THEN <<"Front", "Source">>
    ELSE <<"Front", "Back", "Source">>

\* getattr(source, field_name.lower())
FieldValue(n, field) ==
    IF field = "Front" THEN n.front
    ELSE IF field = "Back" THEN (IF n.back = <<>> THEN <<>> ELSE n.back[1])
    ELSE (IF n.source = <<>> THEN <<>> ELSE n.source[1])

\* _fill_fields: every field of the model whose value differs is overwritten;
\* the result names the fields that changed.  A field the model does not
\* have keeps the empty value.
FillFields(target, n, mid) ==
    LET fields == {ModelFields(mid)[i] : i \in 1..Len(ModelFields(mid))}
        changed == {f \in fields : target[f] # FieldValue(n, f)}
    IN [note |-> [f \in DOMAIN target |->
                     IF f \in changed THEN FieldValue(n, f) ELSE target[f]],
        updated_data |-> changed]

\* existing_note_ids: the ids of the notes of the target deck
ExistingNoteIds(d) == {x.id : x \in d.notes}

\* find_note: the first note of the deck whose Front field is the note's
\* front (collection.find_notes with front:"..."), or None.
FindNote(d, n) ==
    LET ids == {x.id : x \in {y \in d.notes : y.Front = n.front}}
    IN IF ids = {} THEN NoNoteId
       ELSE CHOOSE i \in ids : \A j \in ids : i <= j

\* create_note: a new note of the picked model is added to the deck and its
\* fields are filled; tags and media are left alone.
CreateNote(d, n) ==
    LET mid == PickModel(n)
        blank == [id |-> d.next_id, mid |-> mid, tags |-> {},
                  Front |-> <<>>, Back |-> <<>>, Source |-> <<>>]
    IN [deck |-> [d EXCEPT !.notes = @ \cup {FillFields(blank, n, mid).note},
                           !.next_id = @ + 1],
        note_id |-> d.next_id,
        logs |-> {LogRecord("NotesManager", "Note created: id=%s, front=%s")}]

\* The file names of note.images (None counts as no image).
ImageNames(n) ==
    IF n.images = <<>> THEN {}
    ELSE {n.images[1][i].filename : i \in 1..Len(n.images[1])}

\* update_note: a note of the other model is removed and created anew;
\* otherwise tags, fields and media are brought up to date.  set(note.tags)
\* raises TypeError for a note without tags.  media.write_data returns the
\* name it stored the file under, so every stored image counts as a change.
UpdateNote(d, note_id, n) ==
    LET mid == PickModel(n)
        existing_note == CHOOSE x \in d.notes : x.id = note_id
    IN IF existing_note.mid # mid
       THEN [deck |-> CreateNote([d EXCEPT !.notes = @ \ {existing_note}], n).deck,
             is_updated |-> TRUE, exc |-> None,
             logs |-> {LogRecord("NotesManager", "Note type changed: note_id=%s, old=%s, new=%s"),
                       LogRecord("NotesManager", "Note created: id=%s, front=%s")}]
       ELSE IF n.tags = <<>>
       THEN [deck |-> d, is_updated |-> FALSE, exc |-> "TypeError", logs |-> {}]
       ELSE LET new_tags == {n.tags[1][i] : i \in 1..Len(n.tags[1])}
                filled == FillFields([existing_note EXCEPT !.tags = new_tags], n, mid)
                stored == ImageNames(n) \ d.media
                is_updated == \/ existing_note.tags # new_tags
                              \/ filled.updated_data # {}
                              \/ stored # {}
            IN [deck |-> [d EXCEPT
                            !.notes = IF is_updated
                                      THEN (@ \ {existing_note}) \cup {filled.note}
                                      ELSE @,
                            !.media = @ \cup stored],
                is_updated |-> is_updated, exc |-> None,
                logs |-> (IF stored = {} THEN {}
                          ELSE {LogRecord("NotesManager", "Image stored: %s")})
                         \cup {LogRecord("NotesManager",
                                   IF is_updated THEN "Note updated: note_id=%s, data=%s"
                                   ELSE "No changes in note: note_id=%s")}]

\* remove_notes
RemoveNotes(d, note_ids) ==
    [d EXCEPT !.notes = {x \in @ : x.id \notin note_ids}]

----------------------------------------------------------------------------
(* NotionSyncPlugin and its NotesExtractorWorkers                           *)

\* Bound: the number of _sync runs that start workers.
MaxSyncs == 3

\* Bound: the number of pages listed in the configuration.
MaxPages == 1

\* config['notion_token']
NotionToken == "token_v2 of the user"

\* config['notion_pages'], as page ids
PageLists == {[i \in 1..k |-> i] : k \in 0..MaxPages}

\* What a page can export to: one toggle with a back, one cloze toggle, one
\* tagged toggle with a readable image, a toggle followed by a toggle whose
\* image cannot be read, a toggle list without summary, one toggle without a
\* back.
PageDocuments ==
    {<<[shape |-> "toggle", front |-> <<"text">>, back |-> <<"para">>]>>,
     <<[shape |-> "toggle", front |-> <<"code">>, back |-> <<>>]>>,
     <<[shape |-> "toggle", front |-> <<"text">>, back |-> <<"tagpara", "img">>]>>,
     <<[shape |-> "toggle", front |-> <<"text">>, back |-> <<"para">>],
       [shape |-> "toggle", front |-> <<"text">>, back |-> <<"img_missing">>]>>,
     <<[shape |-> "nosummary", front |-> <<"text">>, back |-> <<>>]>>,
     <<[shape |-> "toggle", front |-> <<"text">>, back |-> <<>>]>>}

\* The ways export_page ends for a worker: the archive is downloaded, the
\* client raises NotionClientError, the HTTP library raises its
\* RequestException (a subclass of OSError).
ExportExits == {"downloaded", "NotionClientError", "RequestException"}

\* The target deck before the first sync: empty, or holding one note that no
\* page exports.
InitialDecks ==
    {[notes |-> {}, next_id |-> 2, media |-> {}, saves |-> 0],
     [notes |-> {[id |-> 1, mid |-> MODEL_NAME, tags |-> {},
                  Front |-> <<"Old">>, Back |-> <<"A">>, Source |-> SourceLink]},
      next_id |-> 2, media |-> {}, saves |-> 0]}

\* '%s' % self.config: the rendered dict shows every value of the config.
ConfigRecord(config) ==
    [logger |-> "NotionSyncPlugin", msg |-> "Config loaded: %s",
     values |-> {config.notion_token}]

\* NotionSyncPlugin.__init__ (42-90) has run; the main window is not
\* initialised yet.
PluginStart ==
    /\ \E pages \in PageLists, debug \in BOOLEAN :
          LET config == [notion_token |-> NotionToken, notion_pages |-> pages,
                         debug |-> debug]
          IN /\ plugin = [config |-> config, debug |-> debug,
                          collection |-> FALSE, collection_seeded |-> FALSE,
                          notes_manager |-> FALSE, synced_note_ids |-> {},
                          alive_workers |-> 0, sync_errors |-> <<>>,
                          processed |-> 0, created |-> 0, updated |-> 0,
                          deleted |-> 0, existing_note_ids |-> {},
                          remove_obsolete_on_sync |-> FALSE,
                          is_auto_sync |-> TRUE]
             /\ plog = {ConfigRecord(config)}
    /\ workers = <<>>
    /\ deck \in InitialDecks
    /\ ui = [main_window_did_init |-> FALSE, title |-> "Notion", dialog |-> "none"]
    /\ syncs = 0

\* seed_collection (150-165); has_col tells whether mw.col is set.
SeedCollection(pl, d, has_col) ==
    IF ~has_col
    THEN [plugin |-> [pl EXCEPT !.collection = FALSE],
          logs |-> {LogRecord("NotionSyncPlugin", "Collection is empty")}]
    ELSE [plugin |-> [pl EXCEPT !.collection = TRUE, !.notes_manager = TRUE,
                                !.existing_note_ids = ExistingNoteIds(d),
                                !.collection_seeded = TRUE],
          logs |-> {LogRecord("NotesManager", "Model updated"),
                    LogRecord("NotesManager", "Cloze model updated"),
                    LogRecord("NotionSyncPlugin", "Collection initialized")}]

\* NotesExtractorWorker.__init__ (349-369) and thread_pool.start; exit and
\* document record how export_page ended for the worker and what it exported.
Worker(pl, page) ==
    [page_id |-> page, notion_token |-> pl.config.notion_token,
     state |-> "started", exit |-> "none", document |-> <<>>,
     emitted |-> <<>>, signals |-> <<>>, exc |-> None]

\* _sync (305-329): one worker per configured page is started.
StartSync(pl, ws, d, u) ==
    IF ~pl.collection \/ ~pl.notes_manager
    THEN [plugin |-> pl, workers |-> ws, ui |-> u, started |-> FALSE,
          logs |-> {LogRecord("NotionSyncPlugin", "Collection is not initialized yet")}]
    ELSE LET seeded == IF pl.collection_seeded
                       THEN [plugin |-> pl, logs |-> {}]
                       ELSE SeedCollection(pl, d, TRUE)
             pages == seeded.plugin.config.notion_pages
         IN [plugin |-> [seeded.plugin EXCEPT !.alive_workers = @ + Len(pages)],
             workers |-> ws \o [i \in 1..Len(pages) |-> Worker(seeded.plugin, pages[i])],
             ui |-> [u EXCEPT !.title = "Notion (syncing...)"],
             started |-> Len(pages) > 0,
             logs |-> seeded.logs]

\* The effect of a call of _sync on the state.
Synced(r, logs) ==
    /\ plugin' = r.plugin
    /\ workers' = r.workers
    /\ ui' = r.ui
    /\ plog' = plog \cup logs \cup r.logs
    /\ syncs' = IF r.started THEN syncs + 1 ELSE syncs
    /\ UNCHANGED deck

\* _reset_stats (293-303)
ResetStats(pl, d) ==
    [pl EXCEPT !.remove_obsolete_on_sync = FALSE, !.synced_note_ids = {},
               !.existing_note_ids = ExistingNoteIds(d),
               !.processed = 0, !.created = 0, !.updated = 0, !.deleted = 0,
               !.sync_errors = <<>>]

\* main_window_did_init: seed_collection, then auto_sync (263-270).
MainWindowDidInit ==
    /\ ~ui.main_window_did_init
    /\ \E has_col \in BOOLEAN :
          LET seeded == SeedCollection(plugin, deck, has_col)
          IN Synced(StartSync([seeded.plugin EXCEPT !.is_auto_sync = TRUE], workers,
                              deck, [ui EXCEPT !.main_window_did_init = TRUE]),
                    seeded.logs \cup {LogRecord("NotionSyncPlugin", "Auto sync started")})

\* auto_sync (263-270), called by the timer: _sync runs whether or not
\* workers are alive.
AutoSync ==
    /\ ui.main_window_did_init
    /\ syncs < MaxSyncs
    /\ Synced(StartSync([plugin EXCEPT !.is_auto_sync = TRUE], workers, deck, ui),
              {LogRecord("NotionSyncPlugin", "Auto sync started")})

\* sync (272-285), for the plugin fields pl
SyncCall(pl) ==
    IF pl.alive_workers = 0
    THEN StartSync([pl EXCEPT !.is_auto_sync = FALSE], workers, deck, ui)
    ELSE [plugin |-> pl, workers |-> workers, started |-> FALSE, logs |-> {},
          ui |-> [ui EXCEPT !.dialog = "Sync is already in progress, please wait"]]

\* The menu action 'Load notes': sync (272-285)
Sync ==
    /\ ui.main_window_did_init
    /\ syncs < MaxSyncs \/ plugin.alive_workers > 0
    /\ Synced(SyncCall(plugin), {LogRecord("NotionSyncPlugin", "Sync started")})

\* The menu action 'Load notes and remove obsolete':
\* sync_and_remove_obsolete (287-291)
SyncAndRemoveObsolete ==
    /\ ui.main_window_did_init
    /\ syncs < MaxSyncs \/ plugin.alive_workers > 0
    /\ Synced(SyncCall([plugin EXCEPT !.remove_obsolete_on_sync = TRUE]),
              {LogRecord("NotionSyncPlugin", "Sync with remove obsolete started"),
               LogRecord("NotionSyncPlugin", "Sync started")})

\* extract_notes_data (322-347) on the HTML file of a page: the notes of its
\* fragments, or the exception of the first fragment that raises.
RECURSIVE ExtractNotesData(_)
ExtractNotesData(doc) ==
    IF doc = <<>> THEN [kind |-> "returned", notes |-> <<>>, exc |-> None]
    ELSE LET n == ExtractNote(Events(Head(doc)), Files)
             rest == ExtractNotesData(Tail(doc))
         IN IF n.kind = "raise"
            THEN [kind |-> "raise", notes |-> <<>>, exc |-> n.exc]
            ELSE IF rest.kind = "raise" THEN rest
            ELSE [rest EXCEPT !.notes =
                     (IF n.kind = "note"
                      THEN <<[n.note EXCEPT !.source = Some(SourceLink)]>>
                      ELSE <<>>) \o @]

\* What extract_notes_data gives for each document a page can export to.
PageExports == [doc \in PageDocuments |-> ExtractNotesData(doc)]

\* A signal of a worker, queued for the plugin's thread.
Signal(name, ns, message) == [name |-> name, notes |-> ns, message |-> message]

\* f'Cannot export {self.page_id}:\n{exc}'
ErrorMsg(page, exc) == <<"Cannot export ", ToString(page), ":\n", exc>>

\* The exceptions the `except OSError` clause of run catches.
OSErrors == {"OSError", "RequestException"}

\* NotesExtractorWorker.run (371-414): what the try statement ends with for
\* an exit of export_page and the document the archive holds.
RunOutcome(page, exit, doc) ==
    LET started == {LogRecord("NotesExtractorWorker", "Worker started")}
        exported == started \cup
            {LogRecord("NotionClient", "Export task posted: page_id=%s, recursive=%s, task_id=%s"),
             LogRecord("NotionClient", "Export complete, downloading file on URL: %s"),
             LogRecord("NotesExtractorWorker", "Exported file downloaded: path=%s")}
        swallowed == {LogRecord("NotesExtractorWorker", "Error deleting files")}
        x == PageExports[doc]
    IN IF exit = "NotionClientError"
       THEN [emitted |-> <<Signal("error", <<>>, ErrorMsg(page, "Invalid token")),
                           Signal("finished", <<>>, <<>>)>>,
             exc |-> None,
             logs |-> started \cup
                      {LogRecord("NotionClient", "Invalid token"),
                       LogRecord("NotesExtractorWorker", "Error extracting notes")}]
       ELSE IF exit = "RequestException"
       THEN [emitted |-> <<Signal("finished", <<>>, <<>>)>>, exc |-> None,
             logs |-> started \cup swallowed]
       ELSE IF x.kind = "raise" /\ x.exc \in OSErrors
       THEN [emitted |-> <<Signal("finished", <<>>, <<>>)>>, exc |-> None,
             logs |-> exported \cup swallowed]
       ELSE IF x.kind = "raise"
       THEN [emitted |-> <<Signal("finished", <<>>, <<>>)>>, exc |-> x.exc,
             logs |-> exported]
       ELSE [emitted |-> <<Signal("result", x.notes, <<>>),
                           Signal("finished", <<>>, <<>>)>>,
             exc |-> None,
             logs |-> exported \cup
                      {LogRecord("NotesExtractorWorker", "Notes extracted: count=%s")}]

\* run of worker i, in a thread of the pool
WorkerRun(i) ==
    /\ workers[i].state = "started"
    /\ \E exit \in ExportExits, doc \in PageDocuments :
          LET o == RunOutcome(workers[i].page_id, exit, doc)
          IN /\ workers' = [workers EXCEPT ![i].state = "ran",
                                           ![i].exit = exit,
                                           ![i].document = IF exit = "downloaded"
                                                           THEN doc ELSE <<>>,
                                           ![i].emitted = o.emitted,
                                           ![i].signals = o.emitted,
                                           ![i].exc = o.exc]
             /\ plog' = plog \cup o.logs
    /\ UNCHANGED <<plugin, deck, ui, syncs>>

\* The loop of handle_worker_result (174-191) over the notes ns; st holds
\* the deck, the counters, the synced ids, the exception that ended the loop
\* and the records logged.
RECURSIVE AddNotes(_, _, _)
AddNotes(st, ns, debug) ==
    IF ns = <<>> \/ st.exc # None THEN st
    ELSE LET n == Head(ns)
             searched == IF debug
                         THEN {LogRecord("NotesManager", "Searching with a query: %s"),
                               LogRecord("NotesManager", "Result: %s")}
                         ELSE {}
             note_id == FindNote(st.deck, n)
             u == UpdateNote(st.deck, note_id, n)
             c == CreateNote(st.deck, n)
         IN IF n.front = <<>>
            THEN AddNotes([st EXCEPT !.logs = @ \cup
                              {LogRecord("NotionSyncPlugin", "Note front is empty. Back: %s")}],
                          Tail(ns), debug)
            ELSE IF note_id # NoNoteId /\ u.exc # None
            THEN [st EXCEPT !.processed = @ + 1, !.exc = u.exc,
                            !.logs = @ \cup searched \cup u.logs]
            ELSE IF note_id # NoNoteId
            THEN AddNotes([st EXCEPT !.processed = @ + 1, !.deck = u.deck,
                                     !.updated = IF u.is_updated THEN @ + 1 ELSE @,
                                     !.synced = @ \cup {note_id},
                                     !.logs = @ \cup searched \cup u.logs],
                          Tail(ns), debug)
            ELSE AddNotes([st EXCEPT !.processed = @ + 1, !.deck = c.deck,
                                     !.created = @ + 1,
                                     !.synced = @ \cup {c.note_id},
                                     !.logs = @ \cup searched \cup c.logs],
                          Tail(ns), debug)

\* The signal of worker i that is delivered next.
NextSignal(i) ==
    IF workers[i].signals = <<>> THEN "none" ELSE Head(workers[i].signals).name

\* handle_worker_result (167-194), for the result signal of worker i
HandleWorkerResult(i) ==
    /\ NextSignal(i) = "result"
    /\ LET st == AddNotes([deck |-> deck, processed |-> plugin.processed,
                           created |-> plugin.created, updated |-> plugin.updated,
                           synced |-> plugin.synced_note_ids, exc |-> None,
                           logs |-> {}],
                          Head(workers[i].signals).notes, plugin.debug)
       IN /\ plugin' = [plugin EXCEPT
                           !.processed = st.processed, !.created = st.created,
                           !.updated = st.updated, !.synced_note_ids = st.synced,
                           !.sync_errors = IF st.exc = None THEN @
                                           ELSE Append(@, <<"Traceback", st.exc>>)]
          /\ deck' = st.deck
          /\ plog' = plog \cup st.logs
    /\ workers' = [workers EXCEPT ![i].signals = Tail(@)]
    /\ UNCHANGED <<ui, syncs>>

\* handle_worker_error (256-261), for the error signal of worker i
HandleWorkerError(i) ==
    /\ NextSignal(i) = "error"
    /\ plugin' = [plugin EXCEPT
                     !.sync_errors = Append(@, Head(workers[i].signals).message)]
    /\ workers' = [workers EXCEPT ![i].signals = Tail(@)]
    /\ UNCHANGED <<deck, ui, syncs, plog>>

\* The workers without worker i, whose last signal has been handled.
Forgotten(i) == [k \in 1..(Len(workers) - 1) |-> IF k < i THEN workers[k] ELSE workers[k + 1]]

\* handle_sync_finished, were the collection saved after a sync with errors.
HandleSyncFinished_SavedOnError(i, do_delete) ==
    /\ NextSignal(i) = "finished"
    /\ workers' = Forgotten(i)
    /\ LET ids_to_remove == plugin.existing_note_ids \ plugin.synced_note_ids
           asked == plugin.remove_obsolete_on_sync /\ ids_to_remove # {}
           removed == IF asked /\ do_delete = "Yes" THEN ids_to_remove ELSE {}
           saved == [RemoveNotes(deck, removed) EXCEPT !.saves = @ + 1]
       IN IF plugin.alive_workers - 1 # 0
          THEN /\ plugin' = [plugin EXCEPT !.alive_workers = @ - 1]
               /\ UNCHANGED <<deck, ui, plog>>
          ELSE IF plugin.sync_errors # <<>>
          THEN /\ plugin' = ResetStats([plugin EXCEPT !.alive_workers = @ - 1], deck)
               /\ ui' = [ui EXCEPT !.title = "Notion",
                                   !.dialog = IF plugin.is_auto_sync THEN @
                                              ELSE "Loading from Notion failed"]
               /\ plog' = plog \cup
                     {LogRecord("NotionSyncPlugin",
                        "Sync finished, processed=%s, created=%s, updated=%s, deleted=%s")}
               /\ deck' = [deck EXCEPT !.saves = @ + 1]
          ELSE /\ deck' = saved
               /\ plugin' = ResetStats([plugin EXCEPT !.alive_workers = @ - 1], saved)
               /\ ui' = [ui EXCEPT !.title = "Notion",
                                   !.dialog = IF ~plugin.is_auto_sync
                                                 THEN "Successfully loaded"
                                              ELSE IF asked THEN "Confirm deletion"
                                              ELSE @]
               /\ plog' = plog \cup
                     (IF removed = {} THEN {}
                      ELSE {LogRecord("NotesManager", "Removing notes: %s")}) \cup
                     {LogRecord("NotionSyncPlugin",
                        "Sync finished, processed=%s, created=%s, updated=%s, deleted=%s")}
    /\ UNCHANGED syncs

\* handle_sync_finished, were every note of the snapshot taken as obsolete.
HandleSyncFinished_SnapshotRemoved(i, do_delete) ==
    /\ NextSignal(i) = "finished"
    /\ workers' = Forgotten(i)
    /\ LET ids_to_remove == plugin.existing_note_ids
           asked == plugin.remove_obsolete_on_sync /\ ids_to_remove # {}
           removed == IF asked /\ do_delete = "Yes" THEN ids_to_remove ELSE {}
           saved == [RemoveNotes(deck, removed) EXCEPT !.saves = @ + 1]
       IN IF plugin.alive_workers - 1 # 0
          THEN /\ plugin' = [plugin EXCEPT !.alive_workers = @ - 1]
               /\ UNCHANGED <<deck, ui, plog>>
          ELSE IF plugin.sync_errors # <<>>
          THEN /\ plugin' = ResetStats([plugin EXCEPT !.alive_workers = @ - 1], deck)
               /\ ui' = [ui EXCEPT !.title = "Notion",
                                   !.dialog = IF plugin.is_auto_sync THEN @
                                              ELSE "Loading from Notion failed"]
               /\ plog' = plog \cup
                     {LogRecord("NotionSyncPlugin",
                        "Sync finished, processed=%s, created=%s, updated=%s, deleted=%s")}
               /\ UNCHANGED deck
          ELSE /\ deck' = saved
               /\ plugin' = ResetStats([plugin EXCEPT !.alive_workers = @ - 1], saved)
               /\ ui' = [ui EXCEPT !.title = "Notion",
                                   !.dialog = IF ~plugin.is_auto_sync
                                                 THEN "Successfully loaded"
                                              ELSE IF asked THEN "Confirm deletion"
                                              ELSE @]
               /\ plog' = plog \cup
                     (IF removed = {} THEN {}
                      ELSE {LogRecord("NotesManager", "Removing notes: %s")}) \cup
                     {LogRecord("NotionSyncPlugin",
                        "Sync finished, processed=%s, created=%s, updated=%s, deleted=%s")}
    /\ UNCHANGED syncs

\* handle_sync_finished (196-254), for the finished signal of worker i;
\* do_delete is the answer to the question about obsolete notes.
HandleSyncFinished(i, do_delete) ==
    /\ NextSignal(i) = "finished"
    /\ workers' = Forgotten(i)
    /\ LET ids_to_remove == plugin.existing_note_ids \ plugin.synced_note_ids
           asked == plugin.remove_obsolete_on_sync /\ ids_to_remove # {}
           removed == IF asked /\ do_delete = "Yes" THEN ids_to_remove ELSE {}
           saved == [RemoveNotes(deck, removed) EXCEPT !.saves = @ + 1]
       IN IF plugin.alive_workers - 1 # 0
          THEN /\ plugin' = [plugin EXCEPT !.alive_workers = @ - 1]
               /\ UNCHANGED <<deck, ui, plog>>
          ELSE IF plugin.sync_errors # <<>>
          THEN /\ plugin' = ResetStats([plugin EXCEPT !.alive_workers = @ - 1], deck)
               /\ ui' = [ui EXCEPT !.title = "Notion",
                                   !.dialog = IF plugin.is_auto_sync THEN @
                                              ELSE "Loading from Notion failed"]
               /\ plog' = plog \cup
                     {LogRecord("NotionSyncPlugin",
                        "Sync finished, processed=%s, created=%s, updated=%s, deleted=%s")}
               /\ UNCHANGED deck
          ELSE /\ deck' = saved
               /\ plugin' = ResetStats([plugin EXCEPT !.alive_workers = @ - 1], saved)
               /\ ui' = [ui EXCEPT !.title = "Notion",
                                   !.dialog = IF ~plugin.is_auto_sync
                                                 THEN "Successfully loaded"
                                              ELSE IF asked THEN "Confirm deletion"
                                              ELSE @]
               /\ plog' = plog \cup
                     (IF removed = {} THEN {}
                      ELSE {LogRecord("NotesManager", "Removing notes: %s")}) \cup
                     {LogRecord("NotionSyncPlugin",
                        "Sync finished, processed=%s, created=%s, updated=%s, deleted=%s")}
    /\ UNCHANGED syncs

PluginNext ==
    \/ MainWindowDidInit /\ UNCHANGED notPluginVars
    \/ AutoSync /\ UNCHANGED notPluginVars
    \/ Sync /\ UNCHANGED notPluginVars
    \/ SyncAndRemoveObsolete /\ UNCHANGED notPluginVars
    \/ \E i \in 1..Len(workers) : WorkerRun(i) /\ UNCHANGED notPluginVars
    \/ \E i \in 1..Len(workers) : HandleWorkerResult(i) /\ UNCHANGED notPluginVars
    \/ \E i \in 1..Len(workers) : HandleWorkerError(i) /\ UNCHANGED notPluginVars
    \/ \E i \in 1..Len(workers), do_delete \in {"Yes", "No"} :
          HandleSyncFinished(i, do_delete) /\ UNCHANGED notPluginVars

PluginInit == ExportIdle /\ SyncIdle /\ ParserIdle /\ DocumentIdle /\ PluginStart /\ BlockIdIdle

SpecPlugin == PluginInit /\ [][PluginNext]_vars

\* A worker whose run has not ended: its export job is in flight.
InFlight(i) == workers[i].state = "started"

\* C12: at every moment at most one export job per target page is in flight
\* from the plugin: no two workers whose run has not ended have the same
\* page, whether they were started by a manual sync or by auto_sync.
C12_OneJobPerPage ==
    \A i, j \in 1..Len(workers) :
        (i # j /\ workers[i].page_id = workers[j].page_id) =>
            ~(InFlight(i) /\ InFlight(j))

\* The timer called auto_sync while the worker of the first sync was alive:
\* two workers export the same page at once.
C12_AutoSyncOverlaps ==
    /\ Len(workers) = 2
    /\ plugin.alive_workers = 2
    /\ plugin.is_auto_sync
    /\ workers[1].page_id = workers[2].page_id
    /\ InFlight(1) /\ InFlight(2)

\* C13: the Notion authentication token is never written to a log: no log
\* record produced by NotionSyncPlugin, NotesExtractorWorker or NotionClient
\* contains the token value.
C13_TokenNeverLogged ==
    \A r \in plog : plugin.config.notion_token \notin r.values

\* With debug set the record 'Config loaded' that shows the token is in
\* log.txt as soon as the plugin is constructed.
C13_TokenInLogFile ==
    /\ plugin.debug
    /\ \E r \in plog : /\ r.logger = "NotionSyncPlugin"
                       /\ plugin.config.notion_token \in r.values

\* The archive of worker i held a fragment whose image cannot be read.
ExportedUnreadableImage(i) ==
    /\ workers[i].state = "ran"
    /\ workers[i].exit = "downloaded"
    /\ \E k \in 1..Len(workers[i].document) :
          HasUnreadableImage(workers[i].document[k])

\* C16: an image file that cannot be read while a fragment is parsed is
\* surfaced as an error of that document: the worker reports it through its
\* error signal.
C16_UnreadableImageReported ==
    \A i \in 1..Len(workers) :
        ExportedUnreadableImage(i) =>
            \E k \in 1..Len(workers[i].emitted) : workers[i].emitted[k].name = "error"

\* The only worker of a manual sync met an unreadable image and emitted
\* nothing but finished: the sync is about to end without an error.
C16_OnlyFinishedEmitted ==
    /\ Len(workers) = 1
    /\ ExportedUnreadableImage(1)
    /\ workers[1].emitted = <<Signal("finished", <<>>, <<>>)>>
    /\ plugin.sync_errors = <<>>
    /\ ~plugin.is_auto_sync

\* The ids of the notes of deck d whose Front field is front.
NoteIdsWithFront(d, front) == {x.id : x \in {y \in d.notes : y.Front = front}}

\* The step is handle_worker_result taking the result signal of worker i.
ResultDelivered(i) ==
    /\ NextSignal(i) = "result"
    /\ Len(workers') = Len(workers)
    /\ workers'[i].signals = Tail(workers[i].signals)

\* C29: records are upserted by front text: for each record with a non-empty
\* front handed to handle_worker_result, a note of the deck with that front
\* is updated (it has the record's back afterwards) and no note is created
\* for it; without such a note exactly one note is created.  A second
\* delivery of the same records adds no note.
C29_UpsertByFront ==
    [][\A i \in 1..Len(workers) :
          ResultDelivered(i) =>
             LET ns == Head(workers[i].signals).notes
             IN \A k \in 1..Len(ns) :
                   ns[k].front # <<>> =>
                      LET before == NoteIdsWithFront(deck, ns[k].front)
                          after == NoteIdsWithFront(deck', ns[k].front)
                      IN /\ before # {} =>
                               /\ after = before
                               /\ \A x \in deck'.notes :
                                     x.Front = ns[k].front =>
                                        x.Back = FieldValue(ns[k], "Back")
                         /\ before = {} => Cardinality(after) = 1]_vars

\* The deck holds the note of the tagged record with front 'Q' and an image;
\* the untagged record with the same front and the back '<p>A</p>' was
\* delivered after it: update_note raised TypeError and the note has the old
\* back.
C29_UntaggedRecordNotUpdated ==
    /\ plugin.sync_errors = << <<"Traceback", "TypeError">> >>
    /\ plugin.processed = 1 /\ plugin.updated = 0 /\ plugin.created = 0
    /\ \E x \in deck.notes :
          /\ x.Front = <<"Q">>
          /\ x.mid = MODEL_NAME
          /\ x.Back # <<"<", "p", ">", "A", "</", "p", ">">>
          /\ CountGlyph(x.Back, "img") > 0

\* The record with front 'Q' and no back was delivered to a deck whose note
\* 'Q' had a back: the note was removed and a note with a new id created,
\* while the id recorded as synced is the id of the removed note.
C29_ModelChangeCreatesNote ==
    /\ \E x \in deck.notes :
          /\ x.Front = <<"Q">>
          /\ x.mid = CLOZE_MODEL_NAME
          /\ x.id > 2
          /\ x.id \notin plugin.synced_note_ids
    /\ plugin.synced_note_ids # {}
    /\ plugin.updated = 1

\* What does hold: no two notes of the deck have the same front.
C29_OneNotePerFront ==
    \A x, y \in deck.notes : x.Front = y.Front => x.id = y.id

\* The step is handle_sync_finished taking the finished signal of a worker.
FinishedHandled == Len(workers') = Len(workers) - 1

\* The step is handle_sync_finished for the last worker alive.
LastFinishedHandled == FinishedHandled /\ plugin.alive_workers = 1

\* C31: when the last worker finishes and an error was recorded (an error
\* signal or an exception while adding notes), the collection is not saved
\* and no note is removed; when no error was recorded the collection is
\* saved.
C31_SavedOnlyWithoutErrors ==
    [][LastFinishedHandled =>
          IF plugin.sync_errors # <<>>
          THEN deck' = deck
          ELSE deck'.saves = deck.saves + 1]_vars

\* A manual sync whose only worker reported an error has finished: the
\* failure was shown and the collection was never saved.
C31_Witness ==
    /\ ui.dialog = "Loading from Notion failed"
    /\ plugin.alive_workers = 0 /\ workers = <<>>
    /\ plugin.sync_errors = <<>>
    /\ deck.saves = 0

\* The ids of the notes of deck d.
NoteIdsOf(d) == {x.id : x \in d.notes}

\* The fronts of the records of the list ns.
FrontsOf(ns) == {ns[k].front : k \in 1..Len(ns)}

\* The ids that the step removes from the deck.
RemovedIds == NoteIdsOf(deck) \ NoteIdsOf(deck')

\* A step that handles a finished signal removes only ids of the snapshot
\* that are not among the synced ids, and removes ids only when removal was
\* requested and the answer was Yes.
RemovalOfUnsyncedOnly ==
    FinishedHandled =>
       /\ RemovedIds \subseteq plugin.existing_note_ids \ plugin.synced_note_ids
       /\ RemovedIds # {} =>
             /\ plugin.remove_obsolete_on_sync
             /\ \E i \in 1..Len(workers) : HandleSyncFinished(i, "Yes")
             /\ ~ \E i \in 1..Len(workers) : HandleSyncFinished(i, "No")

\* While workers are alive the snapshot is kept and no synced id is
\* forgotten, up to the step that handles the last finished signal.
SnapshotKept ==
    (workers # <<>> /\ ~LastFinishedHandled) =>
       /\ plugin.synced_note_ids \subseteq plugin'.synced_note_ids
       /\ plugin'.existing_note_ids = plugin.existing_note_ids

\* After a result was handled without an error, every note of the deck with
\* the front of a delivered record is among the synced ids or is not in the
\* snapshot.
DeliveredAreSynced ==
    \A i \in 1..Len(workers) :
       (ResultDelivered(i) /\ plugin'.sync_errors = plugin.sync_errors) =>
          \A x \in deck'.notes :
             x.Front \in FrontsOf(Head(workers[i].signals).notes) =>
                \/ x.id \in plugin'.synced_note_ids
                \/ x.id \notin plugin.existing_note_ids

\* The three conditions on one step.
OnlyUnsyncedSnapshotIdsRemoved ==
    /\ RemovalOfUnsyncedOnly
    /\ SnapshotKept
    /\ DeliveredAreSynced

\* C32: removal of obsolete notes removes only notes that were not added or
\* updated in the sync: every id removed when a finished signal is handled
\* is in the snapshot of the deck taken before the sync and not among the
\* ids found or created by handle_worker_result in this sync, and ids are
\* removed only after the user confirmed.
C32_OnlyUnsyncedSnapshotIdsRemoved == [][OnlyUnsyncedSnapshotIdsRemoved]_vars

\* A sync with removal has ended after the answer Yes: the note of the
\* snapshot that the page no longer holds was removed, the note of the page
\* is in the deck.
C32_Witness ==
    /\ LogRecord("NotesManager", "Removing notes: %s") \in plog
    /\ plugin.deleted = 0 /\ workers = <<>>
    /\ \E x \in deck.notes : x.Front = <<"Q">>
    /\ ~ \E x \in deck.notes : x.Front = <<"Old">>

\* Worker i emitted the result signal in its run.
EmittedResult(i) ==
    \E k \in 1..Len(workers[i].emitted) : workers[i].emitted[k].name = "result"

\* C34: obsolete notes are removed at the end of a sync only if the workers
\* of the sync delivered their notes through the result signal: a step that
\* handles a finished signal and removes notes is the step of a worker that
\* emitted result.
C34_RemovalOnlyAfterResults ==
    [][\A i \in 1..Len(workers) :
          (NextSignal(i) = "finished" /\ FinishedHandled /\ RemovedIds # {}) =>
             EmittedResult(i)]_vars

\* No worker has ever extracted notes, the export of a worker ended with an
\* exception that the `except OSError` clause swallowed, and the notes of
\* the deck were removed as obsolete.
C34_RemovedAfterSwallowedFailure ==
    /\ LogRecord("NotesManager", "Removing notes: %s") \in plog
    /\ LogRecord("NotesExtractorWorker", "Error deleting files") \in plog
    /\ LogRecord("NotesExtractorWorker", "Notes extracted: count=%s") \notin plog
    /\ deck.notes = {} /\ deck.saves = 1
    /\ workers = <<>>

\* What does hold: no note is removed when an error was recorded, by an
\* error signal or in handle_worker_result.
C34_NoRemovalWithRecordedError ==
    [][(FinishedHandled /\ plugin.sync_errors # <<>>) => RemovedIds = {}]_vars


\* C35: every run emits exactly one of the result signal and the error
\* signal and then the finished signal, once and as its last signal, on
\* every path through run.
C35_ResultOrErrorThenFinished ==
    \A i \in 1..Len(workers) :
       workers[i].state = "ran" =>
          /\ Len(workers[i].emitted) = 2
          /\ workers[i].emitted[1].name \in {"result", "error"}
          /\ workers[i].emitted[2].name = "finished"

\* The export of a worker ended with a RequestException, an OSError: the
\* run emitted finished alone and no exception left it.
C35_OnlyFinishedAfterOSError ==
    /\ Len(workers) = 1
    /\ workers[1].state = "ran"
    /\ workers[1].exit = "RequestException"
    /\ workers[1].exc = None
    /\ workers[1].emitted = <<Signal("finished", <<>>, <<>>)>>

\* The extraction of a worker raised an exception that no clause of run
\* catches: finished was emitted in the finally clause and the exception
\* left run.
C35_OnlyFinishedThenRaised ==
    /\ Len(workers) = 1
    /\ workers[1].state = "ran"
    /\ workers[1].exc \notin {None} \cup OSErrors
    /\ workers[1].emitted = <<Signal("finished", <<>>, <<>>)>>

\* What does hold: every run emits finished once, as its last signal, and
\* before it at most one signal, result or error.
C35_FinishedOnceAndLast ==
    \A i \in 1..Len(workers) :
       workers[i].state = "ran" =>
          LET e == workers[i].emitted
          IN /\ Len(e) \in {1, 2}
             /\ e[Len(e)].name = "finished"
             /\ Len(e) = 2 => e[1].name \in {"result", "error"}


\* The step is a sync or sync_and_remove_obsolete call that is refused
\* because workers are alive.
RequestRefused ==
    /\ plugin.alive_workers > 0
    /\ workers' = workers
    /\ plugin'.alive_workers = plugin.alive_workers
    /\ ui'.dialog = "Sync is already in progress, please wait"

\* A refused request leaves the request for removal as it was, and while
\* the only sync started so far is an auto sync no note is removed.
RemovalOnlyInRemoveSync ==
    /\ RequestRefused =>
          plugin'.remove_obsolete_on_sync = plugin.remove_obsolete_on_sync
    /\ (FinishedHandled /\ syncs = 1 /\ plugin.is_auto_sync) => RemovedIds = {}

\* C36: obsolete notes are removed only at the end of a sync that
\* sync_and_remove_obsolete started: a refused sync_and_remove_obsolete call
\* does not make the sync in flight, or a later sync started by sync or
\* auto_sync, remove notes.
C36_RemovalOnlyInRemoveSync == [][RemovalOnlyInRemoveSync]_vars

\* The auto sync at start-up was in flight when sync_and_remove_obsolete was
\* refused; the auto sync has ended and has removed the notes of the deck
\* that it did not sync.
C36_AutoSyncRemovedNotes ==
    /\ syncs = 1
    /\ plugin.is_auto_sync
    /\ workers = <<>> /\ plugin.alive_workers = 0
    /\ LogRecord("NotionSyncPlugin", "Sync with remove obsolete started") \in plog
    /\ LogRecord("NotesManager", "Removing notes: %s") \in plog
    /\ LogRecord("NotesExtractorWorker", "Notes extracted: count=%s") \in plog
    /\ ~ \E x \in deck.notes : x.Front = <<"Old">>

\* What does hold: notes are removed only when a sync_and_remove_obsolete
\* call came before, refused or not.
C36_RemovalOnlyAfterRemoveRequest ==
    LogRecord("NotesManager", "Removing notes: %s") \in plog =>
       LogRecord("NotionSyncPlugin", "Sync with remove obsolete started") \in plog


\* The statistics, the recorded errors and the synced ids of plugin fields pl
\* are empty.
StatsEmpty(pl) ==
    /\ pl.processed = 0 /\ pl.created = 0 /\ pl.updated = 0 /\ pl.deleted = 0
    /\ pl.sync_errors = <<>>
    /\ pl.synced_note_ids = {}

\* _alive_workers counts the workers whose finished signal has not been
\* handled, before and after the step.
AliveWorkersCounted ==
    /\ plugin.alive_workers = Len(workers)
    /\ plugin'.alive_workers = Len(workers')

\* A finished signal that is not the last one alive only lowers the count.
FinalisedOnlyAtZero ==
    (FinishedHandled /\ plugin.alive_workers # 1) =>
       /\ plugin' = [plugin EXCEPT !.alive_workers = @ - 1]
       /\ UNCHANGED <<deck, ui, plog>>

\* A step that starts workers finds the statistics empty.
WorkersStartedOnEmptyStats ==
    Len(workers') > Len(workers) => StatsEmpty(plugin)

\* The three conditions on one step.
CountedAndReset ==
    /\ AliveWorkersCounted
    /\ FinalisedOnlyAtZero
    /\ WorkersStartedOnEmptyStats

\* C37: _alive_workers always equals the number of started workers whose
\* finished signal has not been handled, the finalisation of
\* handle_sync_finished runs only when the count reaches 0, and so the
\* statistics, the recorded errors and synced_note_ids are empty whenever a
\* sync starts its workers.
C37_CountedAndReset == [][CountedAndReset]_vars

\* The two conditions on one step that do hold.
CountedAndFinalisedAtZero ==
    /\ AliveWorkersCounted
    /\ FinalisedOnlyAtZero

\* What does hold: the count is exact and the finalisation runs only at 0;
\* after it the statistics are empty.
C37_CountedAndFinalisedAtZero == [][CountedAndFinalisedAtZero]_vars

\* What does hold: while no worker is alive the statistics are empty.
C37_EmptyWhileIdle ==
    plugin.alive_workers = 0 => StatsEmpty(plugin)


\* The thread pool runs every started worker.
WorkersRun == \E i \in 1..Len(workers) : WorkerRun(i) /\ UNCHANGED notPluginVars

\* The event loop of the main thread delivers every emitted signal to its
\* slot; the question about obsolete notes is answered.
SignalsHandled ==
    \/ \E i \in 1..Len(workers) : HandleWorkerResult(i) /\ UNCHANGED notPluginVars
    \/ \E i \in 1..Len(workers) : HandleWorkerError(i) /\ UNCHANGED notPluginVars
    \/ \E i \in 1..Len(workers), do_delete \in {"Yes", "No"} :
          HandleSyncFinished(i, do_delete) /\ UNCHANGED notPluginVars

\* The plugin with workers whose run terminates and signals that are
\* delivered.
SpecPluginFair ==
    /\ PluginInit
    /\ [][PluginNext]_vars
    /\ WF_vars(WorkersRun)
    /\ WF_vars(SignalsHandled)

\* C38: every started sync eventually finishes: once _sync has set the menu
\* title to 'Notion (syncing...)', handle_sync_finished eventually sets it
\* back to 'Notion' with the statistics reset, whatever the configured list
\* of pages, the empty list included.
C38_StartedSyncFinishes ==
    (ui.title = "Notion (syncing...)") ~>
        (ui.title = "Notion" /\ StatsEmpty(plugin) /\ plugin.alive_workers = 0)

\* A sync was started with no page configured: the title says syncing and
\* there is no worker whose finished signal could reset it.
C38_SyncingWithoutWorkers ==
    /\ ui.title = "Notion (syncing...)"
    /\ plugin.config.notion_pages = <<>>
    /\ workers = <<>> /\ plugin.alive_workers = 0
    /\ syncs = 0

\* What does hold: a sync that started workers finishes.
C38_SyncWithWorkersFinishes ==
    (plugin.alive_workers > 0) ~>
        (ui.title = "Notion" /\ StatsEmpty(plugin) /\ plugin.alive_workers = 0)


----------------------------------------------------------------------------
(* normalize_block_id (helpers.py 64-78, sync.py 27-41); a block id is the  *)
(* sequence of its characters                                               *)

\* Bound: the number of successive calls of normalize_block_id.
MaxCalls == 2

\* The characters [0-9a-f] of BLOCK_ID_RE
LowerHex == {"0", "1", "2", "3", "4", "5", "6", "7", "8", "9",
             "a", "b", "c", "d", "e", "f"}

\* The 1-based positions of the dashes in
\* [0-9a-f]{8}-[0-9a-f]{4}-[0-9a-f]{4}-[0-9a-f]{4}-[0-9a-f]{12}
DashPositions == {9, 14, 19, 24}

\* BLOCK_ID_RE.match(block_id): the pattern matches at the start of the text.
BlockIdReMatch(s) ==
    /\ Len(s) >= 36
    /\ \A k \in 1..36 : IF k \in DashPositions THEN s[k] = "-" ELSE s[k] \in LowerHex

\* The slice s[a:b] of Python, for 0 <= a <= b
Slice(s, a, b) ==
    IF a >= Len(s) THEN <<>>
    ELSE SubSeq(s, a + 1, IF b < Len(s) THEN b ELSE Len(s))

\* normalize_block_id
NormalizeBlockId(s) ==
    IF ~BlockIdReMatch(s)
    THEN Slice(s, 0, 8) \o <<"-">> \o Slice(s, 8, 12) \o <<"-">> \o Slice(s, 12, 16)
         \o <<"-">> \o Slice(s, 16, 20) \o <<"-">> \o Slice(s, 20, Len(s))
    ELSE s

\* Hex digits the identifiers are written with: a digit, a letter in lower
\* case, a letter in upper case.
HexSamples == {"7", "c", "C"}

\* The lengths of the five groups of a block id.
GroupLengths == <<8, 4, 4, 4, 12>>

\* The text of the groups 1..n of an identifier whose group i repeats the
\* digit digits[i], with or without dashes between the groups.
RECURSIVE GroupsText(_, _, _)
GroupsText(digits, n, dashed) ==
    IF n = 0 THEN <<>>
    ELSE GroupsText(digits, n - 1, dashed)
         \o (IF dashed /\ n > 1 THEN <<"-">> ELSE <<>>)
         \o [k \in 1..GroupLengths[n] |-> digits[n]]

\* Valid block ids: 32 hex characters, with or without dashes.
BlockIds ==
    {GroupsText(digits, 5, dashed) : digits \in [1..5 -> HexSamples], dashed \in BOOLEAN}

\* A caller holds a block id (page_id of a page spec).
BlockIdStart ==
    /\ block_id \in BlockIds
    /\ normalized = <<>>

\* page_id = normalize_block_id(page_id), on the result of the call before
Normalize ==
    /\ Len(normalized) < MaxCalls
    /\ normalized' = Append(normalized,
                            NormalizeBlockId(IF normalized = <<>> THEN block_id
                                             ELSE normalized[Len(normalized)]))
    /\ UNCHANGED block_id

BlockIdNext ==
    \/ Normalize /\ UNCHANGED notBlockIdVars

BlockIdInit ==
    ExportIdle /\ SyncIdle /\ ParserIdle /\ DocumentIdle /\ PluginIdle /\ BlockIdStart

SpecBlockId == BlockIdInit /\ [][BlockIdNext]_vars

\* The identifier without its dashes.
Undashed(s) == SelectSeq(s, LAMBDA c : c # "-")

\* Dashes exactly at the offsets 8/12/16/20 of the 32 hex characters.
WellDashed(s) ==
    /\ Len(s) = 36
    /\ \A k \in 1..36 : (s[k] = "-") <=> (k \in DashPositions)

\* C23: normalize_block_id is idempotent on every valid block identifier
\* (32 hex characters in either letter case, with or without dashes): a
\* second call gives the result of the first, and the result has dashes
\* exactly at the offsets 8/12/16/20 and the hex characters of the input.
C23_NormalizeIdempotent ==
    /\ Len(normalized) >= 1 =>
          WellDashed(normalized[1]) /\ Undashed(normalized[1]) = Undashed(block_id)
    /\ Len(normalized) >= 2 => normalized[2] = normalized[1]

\* An identifier without dashes written with an upper-case letter: the first
\* call inserts the dashes, the second call inserts dashes again.
C23_UppercaseDashedTwice ==
    /\ Len(block_id) = 32
    /\ Len(normalized) = 2
    /\ WellDashed(normalized[1])
    /\ Len(normalized[2]) = 40

\* What does hold: on identifiers written in lower case the function is
\* idempotent and the result is well dashed.
C23_LowercaseIdempotent ==
    (\A k \in 1..Len(block_id) : block_id[k] \in LowerHex \cup {"-"}) =>
        /\ Len(normalized) >= 1 =>
              WellDashed(normalized[1]) /\ Undashed(normalized[1]) = Undashed(block_id)
        /\ Len(normalized) >= 2 => normalized[2] = normalized[1]

====
